---------------------------- MODULE Spec2Model ----------------------------
(***************************************************************************)
(* Notification tasks of learnx-tasks (src/src/trigger/notify.ts) over a   *)
(* relational store.  A task invocation resolves its context, builds its   *)
(* recipient rows and fans out one job per row; every job awaits its push  *)
(* call, then its email call, each wrapped in its own try/catch, and the   *)
(* task joins the jobs with Promise.allSettled.                            *)
(*                                                                         *)
(* The store is read as one snapshot per invocation: rows are inserted,    *)
(* updated and deleted between invocations only.                           *)
(***************************************************************************)
EXTENDS Integers, FiniteSets, Sequences, TLC

\* ------------------------------------------------------------------ bounds

\* number of store edits (insert / update / delete of one row) in a behaviour
MaxEdits == 1

\* ------------------------------------------------------------- identifiers

NULL == "NULL"

Users == {"u1", "u2", "u3"}
\* user ids a payload may carry: "u9" has no row in users
UserIds == Users \cup {"u9"}
GroupIds == {"g1", "g2"}
\* "g9" has no row in groups
PayloadGroupIds == GroupIds \cup {"g9"}
CourseIds == {"c1", "c2"}
\* "c9" has no row in courses
RefCourseIds == CourseIds \cup {"c9"}
RunIds == {"r1", "r2"}
\* "r9" has no row in course-runs
PayloadRunIds == RunIds \cup {"r9"}
CaIds == {"ca1"}
\* "ca9" has no row in course-activities
PayloadCaIds == CaIds \cup {"ca9"}
ActIds == {"a1", "a2"}
Roles == {"student", "teacher"}
ActivityTypes == {"quiz", "assignment", "exam", "reading"}
\* activities.payload: JSON texts (quotes left out), or no text at all
Payloads == {NULL, "", "{}", "{bad", "null", "{title:}", "{title:T}"}
Deadlines == {45, 100}
Documents == {"doc"}

Halves == {"student", "manager", "user"}
Channels == {"push", "email"}

\* JavaScript truthiness of a column value: !v holds for null, undefined, ""
Falsy(v) == v \in {NULL, ""}

\* ------------------------------------------------------------------- state

VARIABLES
    db,         \* the relational store
    edits,      \* store edits made so far
    task,       \* the invocation: [kind, p, info, registered, previous, queried]
                \* (p the payload, info the figures put in the content, queried
                \* the membership, manager and submission tables it has issued
                \* a query on, every throw coming before those, registered the
                \* store version at which the scheduler was given this fire, -1
                \* for an invocation no schedule step registered, previous the
                \* report of the notifyMissedDeadline run before it when this
                \* is notifyMissedDeadline or the summary with the same
                \* payload); kind "none" when idle, previous then the
                \* report of the run just ended
    outcome,    \* "none" | "running" | "ok" (returned) | "raised" (threw)
    err,        \* the Error thrown, "" when none
    half,       \* the fan-out in progress: which recipient query it came from
    jobs,       \* one job per recipient row: row -> "push" | "email" | "done"
    later,      \* recipient rows of the fan-out still to come (notifyNewDocumentAdded)
    att,        \* <<half, channel, user>> -> calls made to the notification service
    failed,     \* <<half, channel, row>> of the calls that threw
    scheduled,  \* the fire the scheduler holds: registered by a schedule step,
                \* kept until the next invocation starts
    pending,    \* <<half, row, subscription>> of the web-push sends still in
                \* flight after their push call has settled
    sends,      \* [half, row, sub, result] of the web-push sends that have
                \* settled, result "fulfilled" or "rejected"
    mail        \* [half, row, message] handed to the mail gateway

vars ==
    <<db, edits, task, outcome, err, half, jobs, later, att, failed, scheduled,
      pending, sends, mail>>

taskVars ==
    <<task, outcome, err, half, jobs, later, att, failed, scheduled, pending, sends, mail>>

\* -------------------------------------------------------------------- store

EmptyFn == [x \in {} |-> NULL]

NoAttempts == [k \in Halves \X Channels \X UserIds |-> 0]

\* rows of "group-members": <<group_id, user_id, role>>
\* rows of course_managers: <<course_id, user_id>>
\* rows of assignment_submissions: <<activity_id, course_run_id, user_id>>
\* rows of "quiz-attempts": <<activity_id, course_run_id, user_id, completed_at>>
\* rows of exam_submissions: <<activity_id, course_run_id, user_id, submitted_at>>
\* rows of notification_records: <<user_id, subscription id, is_active, subscription>>,
\* the subscription column being "object" (an object with an endpoint),
\* "noendpoint" (an object without one) or "badjson" (a string that does not parse)
BaseStore ==
    [ users    |-> [u \in Users |-> [name |-> "N", email |-> "E"]],
      groups   |-> [g \in GroupIds |-> [name |-> "G"]],
      courses  |-> [c \in CourseIds |-> [name |-> "C"]],
      runs     |-> [r \in RunIds |->
                       IF r = "r1"
                       THEN [group_id |-> "g1", name |-> "R1", course_id |-> "c1", end_date |-> "D1"]
                       ELSE [group_id |-> "g2", name |-> "R2", course_id |-> "c2", end_date |-> "D2"]],
      cas      |-> [ca \in CaIds |-> [activity_id |-> "a1", course_id |-> "c1"]],
      acts     |-> [a \in ActIds |->
                       IF a = "a1"
                       THEN [type |-> "quiz", payload |-> "{title:T}"]
                       ELSE [type |-> "assignment", payload |-> "{title:T}"]],
      members  |-> { <<"g1", "u1", "student">>, <<"g1", "u2", "student">>,
                     <<"g1", "u3", "teacher">>, <<"g2", "u2", "student">> },
      managers |-> { <<"c1", "u3">>, <<"c2", "u3">>, <<"c2", "u1">> },
      asub     |-> { <<"a1", "r1", "u2">>, <<"a2", "r1", "u1">> },
      quiz     |-> { <<"a1", "r1", "u3", NULL>>, <<"a1", "r2", "u2", "T">> },
      exam     |-> { <<"a1", "r1", "u1", NULL>>, <<"a1", "r1", "u2", "T">> },
      subs     |-> { <<"u1", "s1", 1, "object">>, <<"u1", "s2", 1, "object">>,
                     <<"u1", "s3", 0, "object">>,
                     <<"u2", "s1", 1, "object">>, <<"u2", "s2", 1, "badjson">>,
                     <<"u2", "s3", 1, "noendpoint">>,
                     <<"u3", "s1", 0, "object">> } ]

\* --------------------------------------------------------------- JSON.parse

\* JSON.parse(text): [threw, value]; an object is modelled by its title field,
\* NULL standing for undefined
JSONparse(text) ==
    CASE text = "{}"        -> [threw |-> FALSE, isObject |-> TRUE,  title |-> NULL]
      [] text = "{title:}"  -> [threw |-> FALSE, isObject |-> TRUE,  title |-> ""]
      [] text = "{title:T}" -> [threw |-> FALSE, isObject |-> TRUE,  title |-> "T"]
      [] text = "null"      -> [threw |-> FALSE, isObject |-> FALSE, title |-> NULL]
      [] OTHER              -> [threw |-> TRUE,  isObject |-> FALSE, title |-> NULL]

\* parsed = JSON.parse(activity.payload || '{}'); activityName = parsed.title
\* "" when nothing is raised, else the error raised
PayloadError(payload) ==
    LET parsed == JSONparse(IF Falsy(payload) THEN "{}" ELSE payload)
    IN  IF parsed.threw THEN "ParseFailed"
        ELSE IF ~parsed.isObject THEN "TypeError"
        ELSE IF Falsy(parsed.title) THEN "TitleNotFound"
        ELSE ""

\* ------------------------------------------------------------------ queries

\* FROM "course-activities" ca JOIN activities a JOIN courses c WHERE ca.id = $1
ActivityQuery(caId) ==
    { [activity_id |-> db.cas[ca].activity_id,
       type        |-> db.acts[db.cas[ca].activity_id].type,
       payload     |-> db.acts[db.cas[ca].activity_id].payload,
       course_id   |-> db.cas[ca].course_id,
       course_name |-> db.courses[db.cas[ca].course_id].name]
      : ca \in { x \in DOMAIN db.cas :
                   /\ x = caId
                   /\ db.cas[x].activity_id \in DOMAIN db.acts
                   /\ db.cas[x].course_id \in DOMAIN db.courses } }

\* SELECT a.type FROM "course-activities" ca JOIN activities a WHERE ca.id = $1
ActivityTypeQuery(caId) ==
    { [type |-> db.acts[db.cas[ca].activity_id].type]
      : ca \in { x \in DOMAIN db.cas :
                   x = caId /\ db.cas[x].activity_id \in DOMAIN db.acts } }

\* SELECT a.type, ca.activity_id FROM "course-activities" ca
\* LEFT JOIN activities a WHERE ca.id = $1
ActivityTypeLeftQuery(caId) ==
    { [type |-> IF db.cas[ca].activity_id \in DOMAIN db.acts
                THEN db.acts[db.cas[ca].activity_id].type ELSE NULL]
      : ca \in { x \in DOMAIN db.cas : x = caId } }

\* the join with the run required to be a run of the course-activity's course
ActivityRunQueryCrossChecked(caId, runId) ==
    { [activity_id |-> a.activity_id, type |-> a.type, payload |-> a.payload,
       course_id |-> a.course_id, course_name |-> a.course_name,
       run_name |-> db.runs[r].name, group_id |-> db.runs[r].group_id]
      : <<a, r>> \in { y \in ActivityQuery(caId) \X DOMAIN db.runs :
                         /\ y[2] = runId
                         /\ db.runs[y[2]].group_id \in DOMAIN db.groups
                         /\ db.runs[y[2]].course_id = y[1].course_id } }

\* FROM "course-activities" ca JOIN activities a JOIN courses c
\* JOIN "course-runs" cr ON cr.id = $2 JOIN groups g ON cr.group_id = g.id
\* WHERE ca.id = $1
ActivityRunQuery(caId, runId) ==
    { [activity_id |-> a.activity_id, type |-> a.type, payload |-> a.payload,
       course_id |-> a.course_id, course_name |-> a.course_name,
       run_name |-> db.runs[r].name, group_id |-> db.runs[r].group_id]
      : <<a, r>> \in { y \in ActivityQuery(caId) \X DOMAIN db.runs :
                         /\ y[2] = runId
                         /\ db.runs[y[2]].group_id \in DOMAIN db.groups } }

\* FROM "course-activities" ca JOIN courses c ON ca.course_id = c.id WHERE ca.id = $1
CourseActivityQuery(caId) ==
    { [course_activity_id |-> ca, course_id |-> db.cas[ca].course_id]
      : ca \in { x \in DOMAIN db.cas :
                   x = caId /\ db.cas[x].course_id \in DOMAIN db.courses } }

\* the run query without its id filter
RunQueryAnyRun(runId) == { db.runs[r] : r \in DOMAIN db.runs }

\* SELECT group_id, name FROM "course-runs" WHERE id = $1
RunQuery(runId) == { db.runs[r] : r \in { x \in DOMAIN db.runs : x = runId } }

\* FROM "course-runs" cr JOIN courses c ON cr.course_id = c.id WHERE cr.id = $1
RunCourseQuery(runId) ==
    { [group_id |-> run.group_id, course_id |-> run.course_id,
       course_name |-> db.courses[run.course_id].name,
       run_name |-> run.name, end_date |-> run.end_date]
      : run \in { x \in RunQuery(runId) : x.course_id \in DOMAIN db.courses } }

\* FROM "course-runs" cr JOIN courses c JOIN groups g WHERE cr.id = $1
RunCourseGroupQuery(runId) ==
    { x \in RunCourseQuery(runId) : x.group_id \in DOMAIN db.groups }

\* the student query without its role filter
StudentsQueryAnyRole(groupId) ==
    { m \in db.members : m[1] = groupId /\ m[2] \in DOMAIN db.users }

\* the student query without its group filter: one row per student membership
StudentsQueryAnyGroup(groupId) ==
    { m \in db.members : m[3] = "student" /\ m[2] \in DOMAIN db.users }

\* the student query joined with every membership of each student: one row per
\* student of the group and membership row of that student
StudentsQueryPerMembership(groupId) ==
    { <<m[1], m[2], <<n[1], n[3]>>>> :
        <<m, n>> \in { y \in db.members \X db.members :
                         /\ y[1][1] = groupId /\ y[1][3] = "student"
                         /\ y[1][2] \in DOMAIN db.users
                         /\ y[2][2] = y[1][2] } }

\* the student query answered from the memberships of the store as it was
\* before any edit
StudentsQueryStale(groupId) ==
    { m \in BaseStore.members :
        m[1] = groupId /\ m[3] = "student" /\ m[2] \in DOMAIN db.users }

\* FROM "group-members" gm JOIN users u ON gm.user_id = u.id
\* WHERE gm.group_id = $1 AND gm.role = 'student'
StudentsQuery(groupId) ==
    { m \in db.members :
        m[1] = groupId /\ m[3] = "student" /\ m[2] \in DOMAIN db.users }

\* the manager query without its course filter
ManagersQueryAnyCourse(courseId) ==
    { m \in db.managers : m[2] \in DOMAIN db.users }

\* FROM course_managers cm JOIN users u ON cm.user_id = u.id WHERE cm.course_id = $1
ManagersQuery(courseId) ==
    { m \in db.managers : m[1] = courseId /\ m[2] \in DOMAIN db.users }

\* SELECT name FROM users WHERE id = $1
UserQuery(userId) == { db.users[u] : u \in { x \in DOMAIN db.users : x = userId } }

\* FROM groups g LEFT JOIN "course-runs" cr LEFT JOIN courses c WHERE g.id = $1
GroupQuery(groupId) ==
    { [group_id |-> g, group_name |-> db.groups[g].name]
      : g \in { x \in DOMAIN db.groups : x = groupId } }

\* the user id of a recipient row (u.id of the join)
RowUser(row) == row[2]

\* the subscription query without its is_active filter
SubscriptionsQueryAnyState(userId) == { x \in db.subs : x[1] = userId }

\* SELECT subscription FROM notification_records WHERE user_id = $1 AND is_active = 1
SubscriptionsQuery(userId) ==
    { x \in db.subs : x[1] = userId /\ x[3] = 1 }

\* the rows for which sendPushNotification calls webpush.sendNotification: the
\* others are skipped with a warning
StartedSends(userId) ==
    { x[2] : x \in { y \in SubscriptionsQuery(userId) : y[4] = "object" } }

\* SELECT email FROM users WHERE id = $1; userRes.rows[0]?.email
EmailQuery(userId) ==
    IF userId \in DOMAIN db.users THEN db.users[userId].email ELSE NULL

\* the template each task builds its email from
TemplateOf(kind) ==
    CASE kind = "sendStudentDeadlineNotification" -> "deadlineSoon"
      [] kind = "sendManagerDeadlineWarning" -> "adminDeadline"
      [] kind = "notifyScorePublished" -> "scorePublished"
      [] kind = "notifyActivityPosted" -> "activityPosted"
      [] kind = "notifyRedoEnabled" -> "redoEnabled"
      [] kind = "notifyStudentOnAddedToGroup" -> "addedToGroup"
      [] kind = "notifyNewDocumentAdded" -> "newDocument"
      [] kind = "notifyMissedDeadline" -> "missedDeadline"
      [] kind = "notifyFacilitatorPostDeadlineSummary" -> "facilitatorSummary"
      [] kind = "notifyFacilitatorEndOfCourseRunFinalize" -> "courseRunFinalize"

\* emailTemplates.<name>(...): four texts, each its own
emailTemplates(name) ==
    [ subject    |-> <<name, "subject">>,
      heading    |-> <<name, "heading">>,
      subheading |-> <<name, "subheading">>,
      body       |-> <<name, "body">> ]

\* sendZeptoMail(to, subject, body): what the mail gateway is given
sendZeptoMail(to, subject, body) ==
    [to |-> to, subject |-> subject, textbody |-> body]

\* an email call that goes to the gateway whatever the address is
sendEmailNotificationUnchecked(args) ==
    {sendZeptoMail(EmailQuery(args[1]), args[2], args[3])}

\* sendEmailNotification(userId, subject, body) called with the arguments args:
\* the parameters take the first three, the rest is dropped; the messages it
\* hands to the mail gateway
sendEmailNotification(args) ==
    LET userId  == args[1]
        subject == args[2]
        body    == args[3]
        email   == EmailQuery(userId)
    IN  IF Falsy(email) THEN {} ELSE {sendZeptoMail(email, subject, body)}

\* notificationService.sendEmailNotification(recipient.id, template.subject,
\* template.heading, template.subheading, template.body)
EmailCall(kind, row) ==
    LET template == emailTemplates(TemplateOf(kind))
    IN  sendEmailNotification(<<RowUser(row), template.subject, template.heading,
                                template.subheading, template.body>>)

\* SELECT DISTINCT user_id FROM assignment_submissions
\* WHERE activity_id = $1 AND course_run_id = $2
AssignmentSubmittedQuery(activityId, runId) ==
    { s[3] : s \in { x \in db.asub : x[1] = activityId /\ x[2] = runId } }

\* a quiz-attempts lookup that finds nobody
QuizSubmittedQueryNone(activityId, runId) == {}

\* SELECT DISTINCT user_id FROM "quiz-attempts"
\* WHERE activity_id = $1 AND course_run_id = $2
QuizSubmittedQuery(activityId, runId) ==
    { s[3] : s \in { x \in db.quiz : x[1] = activityId /\ x[2] = runId } }

\* SELECT DISTINCT user_id FROM exam_submissions
\* WHERE activity_id = $1 AND course_run_id = $2 AND submitted_at IS NOT NULL
ExamSubmittedQuery(activityId, runId) ==
    { s[3] : s \in { x \in db.exam :
                        x[1] = activityId /\ x[2] = runId /\ x[4] # NULL } }

\* a submission lookup that reads the three tables whatever the type is
SubmittedIdsAnyTable(activityType, activityId, runId) ==
    AssignmentSubmittedQuery(activityId, runId)
        \cup QuizSubmittedQuery(activityId, runId)
        \cup ExamSubmittedQuery(activityId, runId)

\* a submission lookup that finds nobody
SubmittedIdsNone(activityType, activityId, runId) == {}

\* submittedIds of notifyMissedDeadline and notifyFacilitatorPostDeadlineSummary
SubmittedIds(activityType, activityId, runId) ==
    IF activityType = "assignment" THEN AssignmentSubmittedQuery(activityId, runId)
    ELSE IF activityType = "quiz" THEN QuizSubmittedQuery(activityId, runId)
    ELSE IF activityType = "exam" THEN ExamSubmittedQuery(activityId, runId)
    ELSE {}

\* the table the submittedIds query of the activity's type reads, if any
SubmissionTable(activityType) ==
    IF activityType = "assignment" THEN {"assignment_submissions"}
    ELSE IF activityType = "quiz" THEN {"quiz-attempts"}
    ELSE IF activityType = "exam" THEN {"exam_submissions"}
    ELSE {}

\* activityType !== 'quiz' && activityType !== 'assignment' && activityType !== 'exam'
NotGraded(activityType) ==
    activityType # "quiz" /\ activityType # "assignment" /\ activityType # "exam"

\* convertUTCToISTString(new Date(deadline)): the wall clock of Asia/Kolkata,
\* five and a half hours ahead of UTC (instants in minutes)
convertUTCToISTString(instant) == instant + 330

\* ---------------------------------------------------------- task outcomes

Idle == outcome = "none"

NoReport == [kind |-> "none"]

\* what is kept of a returned notifyMissedDeadline run: its payload, the users
\* it called and the store it read
Report ==
    IF task.kind = "notifyMissedDeadline" /\ outcome = "ok"
    THEN [ kind     |-> task.kind,
           p        |-> task.p,
           notified |-> { u \in UserIds : att[<<"student", "push", u>>] > 0 },
           db       |-> db ]
    ELSE NoReport

\* the report of the run just ended, if that was a notifyMissedDeadline run and
\* the invocation is another one, or the summary, with the same payload p
PreviousRun(kind, p) ==
    IF /\ task.previous.kind = "notifyMissedDeadline"
       /\ kind \in {"notifyMissedDeadline", "notifyFacilitatorPostDeadlineSummary"}
       /\ task.previous.p = p
    THEN task.previous ELSE NoReport

\* the store version at which the scheduler was given the fire (kind, p), -1
\* when it holds no such fire: the fire's payload is the schedule step's
RegisteredAt(kind, p) ==
    LET fires == { f \in scheduled :
                     /\ f.kind = kind
                     /\ \A k \in DOMAIN p \cap DOMAIN f : f[k] = p[k] }
    IN  IF fires = {} THEN -1 ELSE (CHOOSE f \in fires : TRUE).registered

\* throw new Error(...) before any recipient is built
Raise(kind, p, e) ==
    /\ task' = [kind |-> kind, p |-> p, info |-> NULL,
                registered |-> RegisteredAt(kind, p),
                previous |-> PreviousRun(kind, p),
                queried |-> {}]
    /\ outcome' = "raised"
    /\ err' = e
    /\ half' = "none"
    /\ jobs' = EmptyFn
    /\ later' = {}
    /\ att' = NoAttempts
    /\ failed' = {}
    /\ scheduled' = {}
    /\ pending' = {}
    /\ sends' = {}
    /\ mail' = {}

\* return before any call to the notification service
Return(kind, p, queried) ==
    /\ task' = [kind |-> kind, p |-> p, info |-> NULL,
                registered |-> RegisteredAt(kind, p),
                previous |-> PreviousRun(kind, p),
                queried |-> queried]
    /\ outcome' = "ok"
    /\ err' = ""
    /\ half' = "none"
    /\ jobs' = EmptyFn
    /\ later' = {}
    /\ att' = NoAttempts
    /\ failed' = {}
    /\ scheduled' = {}
    /\ pending' = {}
    /\ sends' = {}
    /\ mail' = {}

\* a trigger call that registers nothing
TriggerDropped(kind, p, fire) ==
    /\ task' = [kind |-> kind, p |-> p, info |-> NULL,
                registered |-> RegisteredAt(kind, p),
                previous |-> PreviousRun(kind, p),
                queried |-> {}]
    /\ outcome' = "ok"
    /\ err' = ""
    /\ half' = "none"
    /\ jobs' = EmptyFn
    /\ later' = {}
    /\ att' = NoAttempts
    /\ failed' = {}
    /\ scheduled' = {}
    /\ pending' = {}
    /\ sends' = {}
    /\ mail' = {}

\* <task>.trigger(payload, {delay, tags, metadata}) and return
Trigger(kind, p, fire) ==
    /\ task' = [kind |-> kind, p |-> p, info |-> NULL,
                registered |-> RegisteredAt(kind, p),
                previous |-> PreviousRun(kind, p),
                queried |-> {}]
    /\ outcome' = "ok"
    /\ err' = ""
    /\ half' = "none"
    /\ jobs' = EmptyFn
    /\ later' = {}
    /\ att' = NoAttempts
    /\ failed' = {}
    /\ scheduled' = {fire @@ [registered |-> edits]}
    /\ pending' = {}
    /\ sends' = {}
    /\ mail' = {}

\* jobs that call sendEmailNotification without awaiting their push call
PushCallsNoAwait(counts, h, rows) ==
    [k \in DOMAIN counts |->
        IF k[1] = h
        THEN counts[k] + Cardinality({row \in rows : RowUser(row) = k[3]})
        ELSE counts[k]]

\* calls to sendPushNotification made when rows.map(async ...) starts its jobs:
\* every job runs up to its first await
PushCalls(counts, h, rows) ==
    [k \in DOMAIN counts |->
        IF k[1] = h /\ k[2] = "push"
        THEN counts[k] + Cardinality({row \in rows : RowUser(row) = k[3]})
        ELSE counts[k]]

\* Promise.allSettled(rows.map(async (recipient) => {...})); rest holds the
\* [half, rows] of the fan-outs the task awaits afterwards
FanOutWith(kind, p, info, h, rows, rest, queried) ==
    /\ task' = [kind |-> kind, p |-> p, info |-> info,
                registered |-> RegisteredAt(kind, p),
                previous |-> PreviousRun(kind, p),
                queried |-> queried]
    /\ outcome' = "running"
    /\ err' = ""
    /\ half' = h
    /\ jobs' = [row \in rows |-> "push"]
    /\ later' = rest
    /\ att' = PushCalls(NoAttempts, h, rows)
    /\ failed' = {}
    /\ scheduled' = {}
    /\ pending' = {}
    /\ sends' = {}
    /\ mail' = {}

FanOut(kind, p, h, rows, rest, queried) ==
    FanOutWith(kind, p, NULL, h, rows, rest, queried)

\* -------------------------------------------------------------------- tasks

scheduleStudentDeadlineNotification ==
    /\ Idle
    /\ \E ca \in PayloadCaIds, r \in PayloadRunIds, d \in Deadlines :
        LET p == [courseActivityId |-> ca, runId |-> r, deadline |-> d]
            activityRes == ActivityTypeQuery(ca)
        IN  IF activityRes = {}
            THEN Raise("scheduleStudentDeadlineNotification", p, "ActivityNotFound")
            ELSE LET activityType == (CHOOSE row \in activityRes : TRUE).type
                 IN  IF NotGraded(activityType)
                     THEN Return("scheduleStudentDeadlineNotification", p, {})
                     ELSE Trigger("scheduleStudentDeadlineNotification", p,
                            [kind |-> "sendStudentDeadlineNotification",
                             courseActivityId |-> ca, runId |-> r,
                             deadline |-> convertUTCToISTString(d),
                             delay |-> d])
    /\ UNCHANGED <<db, edits>>

sendStudentDeadlineNotification ==
    /\ Idle
    /\ \E ca \in PayloadCaIds, r \in PayloadRunIds :
        LET p == [courseActivityId |-> ca, runId |-> r]
            kind == "sendStudentDeadlineNotification"
            activityRes == ActivityQuery(ca)
            activity == CHOOSE row \in activityRes : TRUE
            runRes == RunQuery(r)
            groupId == IF runRes = {} THEN NULL
                       ELSE (CHOOSE row \in runRes : TRUE).group_id
            runName == IF runRes = {} THEN NULL
                       ELSE (CHOOSE row \in runRes : TRUE).name
        IN  IF activityRes = {} THEN Raise(kind, p, "ActivityNotFound")
            ELSE IF PayloadError(activity.payload) # ""
                 THEN Raise(kind, p, PayloadError(activity.payload))
            ELSE IF Falsy(groupId) THEN Raise(kind, p, "GroupNotFound")
            ELSE IF Falsy(runName) THEN Raise(kind, p, "RunNameNotFound")
            ELSE FanOut(kind, p, "student", StudentsQuery(groupId), {}, {"group-members"})
    /\ UNCHANGED <<db, edits>>

scheduleManagerDeadlineWarning ==
    /\ Idle
    /\ \E ca \in PayloadCaIds, r \in PayloadRunIds, d \in Deadlines :
        LET p == [courseActivityId |-> ca, runId |-> r, deadline |-> d]
            activityRes == ActivityTypeQuery(ca)
        IN  IF activityRes = {}
            THEN Raise("scheduleManagerDeadlineWarning", p, "ActivityNotFound")
            ELSE LET activityType == (CHOOSE row \in activityRes : TRUE).type
                 IN  IF NotGraded(activityType)
                     THEN Return("scheduleManagerDeadlineWarning", p, {})
                     ELSE Trigger("scheduleManagerDeadlineWarning", p,
                            [kind |-> "sendManagerDeadlineWarning",
                             courseActivityId |-> ca, runId |-> r,
                             deadline |-> convertUTCToISTString(d),
                             delay |-> d - 30])
    /\ UNCHANGED <<db, edits>>

sendManagerDeadlineWarning ==
    /\ Idle
    /\ \E ca \in PayloadCaIds, r \in PayloadRunIds :
        LET p == [courseActivityId |-> ca, runId |-> r]
            kind == "sendManagerDeadlineWarning"
            activityRes == ActivityQuery(ca)
            activity == CHOOSE row \in activityRes : TRUE
            runRes == RunQuery(r)
            runName == IF runRes = {} THEN NULL
                       ELSE (CHOOSE row \in runRes : TRUE).name
        IN  IF activityRes = {} THEN Raise(kind, p, "ActivityNotFound")
            ELSE IF PayloadError(activity.payload) # ""
                 THEN Raise(kind, p, PayloadError(activity.payload))
            ELSE IF Falsy(activity.course_id) THEN Raise(kind, p, "CourseIdNotFound")
            ELSE IF Falsy(runName) THEN Raise(kind, p, "RunNameNotFound")
            ELSE IF ManagersQuery(activity.course_id) = {} THEN Return(kind, p, {"course_managers"})
            ELSE FanOut(kind, p, "manager", ManagersQuery(activity.course_id), {},
                        {"course_managers"})
    /\ UNCHANGED <<db, edits>>

\* the run-scoped student tasks that read activity, course, run and group in one join
StudentTaskOverJoin(kind, returnsWhenEmpty) ==
    /\ Idle
    /\ \E ca \in PayloadCaIds, r \in PayloadRunIds :
        LET p == [courseActivityId |-> ca, runId |-> r]
            res == ActivityRunQuery(ca, r)
            row == CHOOSE x \in res : TRUE
        IN  IF res = {} THEN Raise(kind, p, "ActivityDataNotFound")
            ELSE IF PayloadError(row.payload) # ""
                 THEN Raise(kind, p, PayloadError(row.payload))
            ELSE IF Falsy(row.run_name) THEN Raise(kind, p, "RunNameNotFound")
            ELSE IF Falsy(row.group_id) THEN Raise(kind, p, "GroupNotFound")
            ELSE IF returnsWhenEmpty /\ StudentsQuery(row.group_id) = {}
                 THEN Return(kind, p, {"group-members"})
            ELSE FanOut(kind, p, "student", StudentsQuery(row.group_id), {},
                        {"group-members"})
    /\ UNCHANGED <<db, edits>>

notifyScorePublished == StudentTaskOverJoin("notifyScorePublished", TRUE)

notifyActivityPosted == StudentTaskOverJoin("notifyActivityPosted", FALSE)

notifyRedoEnabled ==
    /\ Idle
    /\ \E u \in UserIds, ca \in PayloadCaIds, r \in PayloadRunIds :
        LET p == [userId |-> u, courseActivityId |-> ca, runId |-> r]
            kind == "notifyRedoEnabled"
            courseActivitiesRes == CourseActivityQuery(ca)
            courseActivityId ==
                (CHOOSE row \in courseActivitiesRes : TRUE).course_activity_id
            result == ActivityQuery(courseActivityId)
            activity == CHOOSE row \in result : TRUE
            userRes == UserQuery(u)
            userName == IF userRes = {} THEN NULL
                        ELSE (CHOOSE row \in userRes : TRUE).name
        IN  IF courseActivitiesRes = {} THEN Return(kind, p, {})
            ELSE IF result = {} THEN Raise(kind, p, "ActivityNotFound")
            ELSE IF PayloadError(activity.payload) # ""
                 THEN Raise(kind, p, PayloadError(activity.payload))
            ELSE IF Falsy(activity.course_name) THEN Raise(kind, p, "CourseNameNotFound")
            ELSE IF Falsy(userName) THEN Raise(kind, p, "UserNotFound")
            ELSE FanOut(kind, p, "user", {<<"payload", u>>}, {}, {})
    /\ UNCHANGED <<db, edits>>

notifyStudentOnAddedToGroup ==
    /\ Idle
    /\ \E u \in UserIds, g \in PayloadGroupIds :
        LET p == [userId |-> u, groupId |-> g]
            kind == "notifyStudentOnAddedToGroup"
            userRes == UserQuery(u)
            groupRes == GroupQuery(g)
        IN  IF userRes = {} THEN Raise(kind, p, "UserNotFound")
            ELSE IF groupRes = {} THEN Raise(kind, p, "GroupNotFound")
            ELSE IF Falsy((CHOOSE row \in groupRes : TRUE).group_name)
                 THEN Raise(kind, p, "GroupNameNotFound")
            ELSE FanOut(kind, p, "user", {<<"users", u>>}, {}, {})
    /\ UNCHANGED <<db, edits>>

\* a new-document task that returns when either recipient list is empty
notifyNewDocumentAddedEitherEmpty ==
    /\ Idle
    /\ \E r \in PayloadRunIds, doc \in Documents :
        LET p == [runId |-> r, documentName |-> doc]
            kind == "notifyNewDocumentAdded"
            runRes == RunCourseQuery(r)
            run == CHOOSE row \in runRes : TRUE
            studentsRes == StudentsQuery(run.group_id)
            managersRes == ManagersQuery(run.course_id)
        IN  IF runRes = {} THEN Raise(kind, p, "CourseRunNotFound")
            ELSE IF Falsy(run.group_id) \/ Falsy(run.course_id)
                 THEN Raise(kind, p, "GroupOrCourseNotFound")
            ELSE IF Falsy(run.course_name) THEN Raise(kind, p, "CourseNameNotFound")
            ELSE IF studentsRes = {} \/ managersRes = {}
                 THEN Return(kind, p, {"group-members", "course_managers"})
            ELSE FanOut(kind, p, "student", studentsRes,
                        {[half |-> "manager", rows |-> managersRes]},
                        {"group-members", "course_managers"})
    /\ UNCHANGED <<db, edits>>

notifyNewDocumentAdded ==
    /\ Idle
    /\ \E r \in PayloadRunIds, doc \in Documents :
        LET p == [runId |-> r, documentName |-> doc]
            kind == "notifyNewDocumentAdded"
            runRes == RunCourseQuery(r)
            run == CHOOSE row \in runRes : TRUE
            studentsRes == StudentsQuery(run.group_id)
            managersRes == ManagersQuery(run.course_id)
        IN  IF runRes = {} THEN Raise(kind, p, "CourseRunNotFound")
            ELSE IF Falsy(run.group_id) \/ Falsy(run.course_id)
                 THEN Raise(kind, p, "GroupOrCourseNotFound")
            ELSE IF Falsy(run.course_name) THEN Raise(kind, p, "CourseNameNotFound")
            ELSE IF studentsRes = {} /\ managersRes = {}
                 THEN Return(kind, p, {"group-members", "course_managers"})
            ELSE FanOut(kind, p, "student", studentsRes,
                        {[half |-> "manager", rows |-> managersRes]},
                        {"group-members", "course_managers"})
    /\ UNCHANGED <<db, edits>>

\* the schedule steps that read the activity type over a LEFT JOIN
ScheduleOverLeftJoin(kind, fireKind) ==
    /\ Idle
    /\ \E ca \in PayloadCaIds, r \in PayloadRunIds, d \in Deadlines :
        LET p == [courseActivityId |-> ca, runId |-> r, deadline |-> d]
            activityRes == ActivityTypeLeftQuery(ca)
            row == CHOOSE x \in activityRes : TRUE
        IN  IF activityRes = {} THEN Raise(kind, p, "CourseActivityNotFound")
            ELSE IF Falsy(row.type) THEN Raise(kind, p, "ActivityNotFound")
            ELSE IF NotGraded(row.type) THEN Return(kind, p, {})
            ELSE Trigger(kind, p,
                    [kind |-> fireKind, courseActivityId |-> ca, runId |-> r,
                     deadline |-> convertUTCToISTString(d), delay |-> d])
    /\ UNCHANGED <<db, edits>>

scheduleNotifyMissedDeadline ==
    ScheduleOverLeftJoin("scheduleNotifyMissedDeadline", "notifyMissedDeadline")

notifyMissedDeadline ==
    /\ Idle
    /\ \E ca \in PayloadCaIds, r \in PayloadRunIds :
        LET p == [courseActivityId |-> ca, runId |-> r]
            kind == "notifyMissedDeadline"
            res == ActivityRunQuery(ca, r)
            row == CHOOSE x \in res : TRUE
            studentsRes == StudentsQuery(row.group_id)
            submittedIds == SubmittedIds(row.type, row.activity_id, r)
            studentsToNotify ==
                { s \in studentsRes : RowUser(s) \notin submittedIds }
            queried == {"group-members"} \cup SubmissionTable(row.type)
        IN  IF res = {} THEN Raise(kind, p, "ActivityDataNotFound")
            ELSE IF PayloadError(row.payload) # ""
                 THEN Raise(kind, p, PayloadError(row.payload))
            ELSE IF Falsy(row.run_name) THEN Raise(kind, p, "RunNameNotFound")
            ELSE IF Falsy(row.group_id) THEN Raise(kind, p, "GroupNotFound")
            ELSE IF studentsRes = {} THEN Return(kind, p, {"group-members"})
            ELSE IF studentsToNotify = {} THEN Return(kind, p, queried)
            ELSE FanOut(kind, p, "student", studentsToNotify, {}, queried)
    /\ UNCHANGED <<db, edits>>

\* counts that take every submitted id for a student of the group
SummaryCountsBySize(studentsRes, submittedIds) ==
    [ submitted    |-> Cardinality(submittedIds),
      notSubmitted |-> Cardinality(studentsRes) - Cardinality(submittedIds) ]

\* counts whose submitted figure takes every submitted id
SummaryCountsOfAllIds(studentsRes, submittedIds) ==
    [ submitted    |-> Cardinality(submittedIds),
      notSubmitted |->
          Cardinality({ x \in studentsRes : RowUser(x) \notin submittedIds }) ]

\* submitted = studentIds.filter((id) => submittedIds.includes(id)).length;
\* notSubmitted = studentIds.length - submitted
SummaryCounts(studentsRes, submittedIds) ==
    LET submitted ==
            Cardinality({ x \in studentsRes : RowUser(x) \in submittedIds })
    IN  [ submitted    |-> submitted,
          notSubmitted |-> Cardinality(studentsRes) - submitted ]

\* a summary that looks at the student rows only after all its queries
notifyFacilitatorPostDeadlineSummaryQueriesAll ==
    /\ Idle
    /\ \E ca \in PayloadCaIds, r \in PayloadRunIds :
        LET p == [courseActivityId |-> ca, runId |-> r]
            kind == "notifyFacilitatorPostDeadlineSummary"
            res == ActivityRunQuery(ca, r)
            row == CHOOSE x \in res : TRUE
            studentsRes == StudentsQuery(row.group_id)
            submittedIds == SubmittedIds(row.type, row.activity_id, r)
            facilitatorsRes == ManagersQuery(row.course_id)
            queried == {"group-members", "course_managers"}
                           \cup SubmissionTable(row.type)
        IN  IF res = {} THEN Raise(kind, p, "ActivityDataNotFound")
            ELSE IF PayloadError(row.payload) # ""
                 THEN Raise(kind, p, PayloadError(row.payload))
            ELSE IF Falsy(row.run_name) THEN Raise(kind, p, "RunNameNotFound")
            ELSE IF Falsy(row.group_id) \/ Falsy(row.course_id)
                 THEN Raise(kind, p, "GroupOrCourseNotFound")
            ELSE IF studentsRes = {} THEN Return(kind, p, queried)
            ELSE IF facilitatorsRes = {} THEN Return(kind, p, queried)
            ELSE FanOutWith(kind, p, SummaryCounts(studentsRes, submittedIds),
                            "manager", facilitatorsRes, {}, queried)
    /\ UNCHANGED <<db, edits>>

\* a summary that is not sent when every student has submitted
notifyFacilitatorPostDeadlineSummaryQuiet ==
    /\ Idle
    /\ \E ca \in PayloadCaIds, r \in PayloadRunIds :
        LET p == [courseActivityId |-> ca, runId |-> r]
            kind == "notifyFacilitatorPostDeadlineSummary"
            res == ActivityRunQuery(ca, r)
            row == CHOOSE x \in res : TRUE
            studentsRes == StudentsQuery(row.group_id)
            submittedIds == SubmittedIds(row.type, row.activity_id, r)
            facilitatorsRes == ManagersQuery(row.course_id)
            queried == {"group-members", "course_managers"}
                           \cup SubmissionTable(row.type)
        IN  IF res = {} THEN Raise(kind, p, "ActivityDataNotFound")
            ELSE IF PayloadError(row.payload) # ""
                 THEN Raise(kind, p, PayloadError(row.payload))
            ELSE IF Falsy(row.run_name) THEN Raise(kind, p, "RunNameNotFound")
            ELSE IF Falsy(row.group_id) \/ Falsy(row.course_id)
                 THEN Raise(kind, p, "GroupOrCourseNotFound")
            ELSE IF studentsRes = {} THEN Return(kind, p, {"group-members"})
            ELSE IF facilitatorsRes = {} THEN Return(kind, p, queried)
            ELSE IF SummaryCounts(studentsRes, submittedIds).notSubmitted = 0
                 THEN Return(kind, p, queried)
            ELSE FanOutWith(kind, p, SummaryCounts(studentsRes, submittedIds),
                            "manager", facilitatorsRes, {}, queried)
    /\ UNCHANGED <<db, edits>>

notifyFacilitatorPostDeadlineSummary ==
    /\ Idle
    /\ \E ca \in PayloadCaIds, r \in PayloadRunIds :
        LET p == [courseActivityId |-> ca, runId |-> r]
            kind == "notifyFacilitatorPostDeadlineSummary"
            res == ActivityRunQuery(ca, r)
            row == CHOOSE x \in res : TRUE
            studentsRes == StudentsQuery(row.group_id)
            submittedIds == SubmittedIds(row.type, row.activity_id, r)
            facilitatorsRes == ManagersQuery(row.course_id)
            queried == {"group-members", "course_managers"}
                           \cup SubmissionTable(row.type)
        IN  IF res = {} THEN Raise(kind, p, "ActivityDataNotFound")
            ELSE IF PayloadError(row.payload) # ""
                 THEN Raise(kind, p, PayloadError(row.payload))
            ELSE IF Falsy(row.run_name) THEN Raise(kind, p, "RunNameNotFound")
            ELSE IF Falsy(row.group_id) \/ Falsy(row.course_id)
                 THEN Raise(kind, p, "GroupOrCourseNotFound")
            ELSE IF studentsRes = {} THEN Return(kind, p, {"group-members"})
            ELSE IF facilitatorsRes = {} THEN Return(kind, p, queried)
            ELSE FanOutWith(kind, p, SummaryCounts(studentsRes, submittedIds),
                            "manager", facilitatorsRes, {}, queried)
    /\ UNCHANGED <<db, edits>>

scheduleNotifyFacilitatorPostDeadlineSummary ==
    ScheduleOverLeftJoin("scheduleNotifyFacilitatorPostDeadlineSummary",
                         "notifyFacilitatorPostDeadlineSummary")

notifyFacilitatorEndOfCourseRunFinalize ==
    /\ Idle
    /\ \E r \in PayloadRunIds :
        LET p == [courseRunId |-> r]
            kind == "notifyFacilitatorEndOfCourseRunFinalize"
            res == RunCourseGroupQuery(r)
            row == CHOOSE x \in res : TRUE
            facilitatorsRes == ManagersQuery(row.course_id)
        IN  IF res = {} THEN Raise(kind, p, "CourseRunNotFound")
            ELSE IF Falsy(row.run_name) \/ Falsy(row.course_name)
                 THEN Raise(kind, p, "RunOrCourseNameNotFound")
            ELSE IF Falsy(row.course_id) THEN Raise(kind, p, "CourseIdNotFound")
            ELSE IF facilitatorsRes = {} THEN Return(kind, p, {"course_managers"})
            ELSE FanOut(kind, p, "manager", facilitatorsRes, {}, {"course_managers"})
    /\ UNCHANGED <<db, edits>>

scheduleNotifyFacilitatorEndOfCourseRunFinalize ==
    /\ Idle
    /\ \E r \in PayloadRunIds :
        LET p == [courseRunId |-> r]
            kind == "scheduleNotifyFacilitatorEndOfCourseRunFinalize"
            runRes == RunQuery(r)
            endDate == (CHOOSE row \in runRes : TRUE).end_date
        IN  IF runRes = {} THEN Raise(kind, p, "CourseRunNotFound")
            ELSE IF Falsy(endDate) THEN Raise(kind, p, "EndDateNotFound")
            ELSE Trigger(kind, p,
                    [kind |-> "notifyFacilitatorEndOfCourseRunFinalize",
                     courseRunId |-> r, delay |-> endDate])
    /\ UNCHANGED <<db, edits>>

\* ------------------------------------------------------------ fan-out steps

\* a push failure that ends the job: no catch around the push call
PushSettlesNoCatch(row, ok) ==
    /\ outcome = "running"
    /\ row \in DOMAIN jobs
    /\ jobs[row] = "push"
    /\ ok \/ StartedSends(RowUser(row)) # {}
    /\ jobs' = [jobs EXCEPT ![row] = IF ok THEN "email" ELSE "done"]
    /\ att' = IF ok THEN [att EXCEPT ![<<half, "email", RowUser(row)>>] = @ + 1]
             ELSE att
    /\ failed' = IF ok THEN failed ELSE failed \cup {<<half, "push", row>>}
    /\ UNCHANGED <<db, edits, task, outcome, err, half, later, scheduled,
                   pending, sends, mail>>

\* await notificationService.sendPushNotification(...) settles for one job: it
\* returns (ok) once every send it started is fulfilled, or throws into the
\* job's catch as soon as one of them is rejected (Promise.all), the sends
\* stillInFlight going on; the job goes on to call sendEmailNotification
PushSettles(row, ok) ==
    /\ outcome = "running"
    /\ row \in DOMAIN jobs
    /\ jobs[row] = "push"
    /\ ok \/ StartedSends(RowUser(row)) # {}
    /\ jobs' = [jobs EXCEPT ![row] = "email"]
    /\ att' = [att EXCEPT ![<<half, "email", RowUser(row)>>] = @ + 1]
    /\ failed' = IF ok THEN failed ELSE failed \cup {<<half, "push", row>>}
    /\ \E rejected \in StartedSends(RowUser(row)) \cup {NULL},
          stillInFlight \in SUBSET StartedSends(RowUser(row)) :
          /\ ok => (rejected = NULL /\ stillInFlight = {})
          /\ ~ok => (rejected # NULL /\ rejected \notin stillInFlight)
          /\ pending' = pending \cup { <<half, row, sub>> : sub \in stillInFlight }
          /\ sends' = sends \cup
                { [half |-> half, row |-> row, sub |-> sub,
                   result |-> IF sub = rejected THEN "rejected" ELSE "fulfilled"]
                  : sub \in StartedSends(RowUser(row)) \ stillInFlight }
    /\ UNCHANGED <<db, edits, task, outcome, err, half, later, scheduled, mail>>

\* webpush.sendNotification(...) settles, fulfilled (ok) or rejected, for a send
\* whose push call has already thrown: nothing awaits it any more
SendSettles(send, ok) ==
    /\ send \in pending
    /\ pending' = pending \ {send}
    /\ sends' = sends \cup
          { [half |-> send[1], row |-> send[2], sub |-> send[3],
             result |-> IF ok THEN "fulfilled" ELSE "rejected"] }
    /\ UNCHANGED <<db, edits, task, outcome, err, half, jobs, later, att, failed,
                   scheduled, mail>>

\* an email failure that escapes the job and the task: no catch around the
\* email call and no allSettled around the jobs
EmailSettlesNoCatch(row, ok) ==
    /\ outcome = "running"
    /\ row \in DOMAIN jobs
    /\ jobs[row] = "email"
    /\ ok \/ EmailCall(task.kind, row) # {}
    /\ jobs' = [jobs EXCEPT ![row] = "done"]
    /\ failed' = IF ok THEN failed ELSE failed \cup {<<half, "email", row>>}
    /\ mail' = mail \cup { [half |-> half, row |-> row, message |-> msg]
                             : msg \in EmailCall(task.kind, row) }
    /\ outcome' = IF ok THEN outcome ELSE "raised"
    /\ err' = IF ok THEN err ELSE "EmailFailed"
    /\ UNCHANGED <<db, edits, task, half, later, att, scheduled, pending, sends>>

\* await notificationService.sendEmailNotification(...) settles for one job: it
\* returns (ok), having handed its message to the mail gateway if the user has
\* an email address, or throws into the job's catch when the gateway rejects
\* the message; the job's promise is fulfilled either way
EmailSettles(row, ok) ==
    /\ outcome = "running"
    /\ row \in DOMAIN jobs
    /\ jobs[row] = "email"
    /\ ok \/ EmailCall(task.kind, row) # {}
    /\ jobs' = [jobs EXCEPT ![row] = "done"]
    /\ failed' = IF ok THEN failed ELSE failed \cup {<<half, "email", row>>}
    /\ mail' = mail \cup { [half |-> half, row |-> row, message |-> msg]
                             : msg \in EmailCall(task.kind, row) }
    /\ UNCHANGED <<db, edits, task, outcome, err, half, later, att, scheduled,
                   pending, sends>>

\* await Promise.allSettled(...) resumes once every job has settled: the task
\* starts its next fan-out or returns
Join ==
    /\ outcome = "running"
    /\ \A row \in DOMAIN jobs : jobs[row] = "done"
    /\ IF later = {}
       THEN /\ outcome' = "ok"
            /\ UNCHANGED <<half, jobs, later, att>>
       ELSE LET next == CHOOSE f \in later : TRUE
            IN  /\ half' = next.half
                /\ jobs' = [row \in next.rows |-> "push"]
                /\ later' = later \ {next}
                /\ att' = PushCalls(att, next.half, next.rows)
                /\ UNCHANGED outcome
    /\ UNCHANGED <<db, edits, task, err, failed, scheduled, pending, sends, mail>>

\* the invocation is over: its recipient set and report are not kept, the fire
\* it registered stays with the scheduler
Discard ==
    /\ outcome \in {"ok", "raised"}
    /\ task' = [kind |-> "none", p |-> NULL, info |-> NULL, registered |-> -1,
                previous |-> Report, queried |-> {}]
    /\ outcome' = "none"
    /\ err' = ""
    /\ half' = "none"
    /\ jobs' = EmptyFn
    /\ later' = {}
    /\ att' = NoAttempts
    /\ failed' = {}
    /\ pending' = {}
    /\ sends' = {}
    /\ mail' = {}
    /\ UNCHANGED <<db, edits, scheduled>>

\* -------------------------------------------------------------- store edits

\* one row inserted, updated or deleted by the platform between invocations
Edit(newdb) ==
    /\ Idle
    /\ edits < MaxEdits
    /\ newdb # db
    /\ db' = newdb
    /\ edits' = edits + 1
    /\ UNCHANGED taskVars

InsertGroupMember ==
    \E g \in GroupIds, u \in Users, role \in Roles :
        Edit([db EXCEPT !.members = @ \cup {<<g, u, role>>}])

DeleteGroupMember ==
    \E m \in db.members : Edit([db EXCEPT !.members = @ \ {m}])

InsertCourseManager ==
    \E c \in CourseIds, u \in Users :
        Edit([db EXCEPT !.managers = @ \cup {<<c, u>>}])

DeleteCourseManager ==
    \E m \in db.managers : Edit([db EXCEPT !.managers = @ \ {m}])

UpdateCourseRun ==
    \E r \in DOMAIN db.runs :
        \/ \E g \in GroupIds \cup {NULL} : Edit([db EXCEPT !.runs[r].group_id = g])
        \/ Edit([db EXCEPT !.runs[r].name = NULL])
        \/ \E c \in CourseIds : Edit([db EXCEPT !.runs[r].course_id = c])
        \/ Edit([db EXCEPT !.runs[r].end_date = NULL])

DeleteCourseRun ==
    \E r \in DOMAIN db.runs :
        Edit([db EXCEPT !.runs = [x \in DOMAIN db.runs \ {r} |-> db.runs[x]]])

UpdateCourseActivity ==
    \E ca \in DOMAIN db.cas :
        \/ \E c \in RefCourseIds : Edit([db EXCEPT !.cas[ca].course_id = c])
        \/ \E a \in ActIds : Edit([db EXCEPT !.cas[ca].activity_id = a])

UpdateActivity ==
    \E a \in DOMAIN db.acts :
        \/ \E t \in ActivityTypes : Edit([db EXCEPT !.acts[a].type = t])
        \/ \E text \in Payloads : Edit([db EXCEPT !.acts[a].payload = text])

DeleteActivity ==
    \E a \in DOMAIN db.acts :
        Edit([db EXCEPT !.acts = [x \in DOMAIN db.acts \ {a} |-> db.acts[x]]])

InsertAssignmentSubmission ==
    \E a \in ActIds, r \in RunIds, u \in Users :
        Edit([db EXCEPT !.asub = @ \cup {<<a, r, u>>}])

InsertQuizAttempt ==
    \E a \in ActIds, r \in RunIds, u \in Users, completed_at \in {NULL, "T"} :
        Edit([db EXCEPT !.quiz = @ \cup {<<a, r, u, completed_at>>}])

InsertExamSubmission ==
    \E a \in ActIds, r \in RunIds, u \in Users, submitted_at \in {NULL, "T"} :
        Edit([db EXCEPT !.exam = @ \cup {<<a, r, u, submitted_at>>}])

UpdateUser ==
    \E u \in DOMAIN db.users :
        \/ Edit([db EXCEPT !.users[u].name = NULL])
        \/ Edit([db EXCEPT !.users[u].email = NULL])

UpdateGroup ==
    \E g \in DOMAIN db.groups : Edit([db EXCEPT !.groups[g].name = NULL])

UpdateCourse ==
    \E c \in DOMAIN db.courses : Edit([db EXCEPT !.courses[c].name = NULL])

\* ------------------------------------------------------------ specification

Init ==
    /\ db = BaseStore
    /\ edits = 0
    /\ task = [kind |-> "none", p |-> NULL, info |-> NULL, registered |-> -1,
               previous |-> NoReport, queried |-> {}]
    /\ outcome = "none"
    /\ err = ""
    /\ half = "none"
    /\ jobs = EmptyFn
    /\ later = {}
    /\ att = NoAttempts
    /\ failed = {}
    /\ scheduled = {}
    /\ pending = {}
    /\ sends = {}
    /\ mail = {}

Next ==
    \/ scheduleStudentDeadlineNotification
    \/ sendStudentDeadlineNotification
    \/ scheduleManagerDeadlineWarning
    \/ sendManagerDeadlineWarning
    \/ notifyScorePublished
    \/ notifyActivityPosted
    \/ notifyRedoEnabled
    \/ notifyStudentOnAddedToGroup
    \/ notifyNewDocumentAdded
    \/ scheduleNotifyMissedDeadline
    \/ notifyMissedDeadline
    \/ notifyFacilitatorPostDeadlineSummary
    \/ scheduleNotifyFacilitatorPostDeadlineSummary
    \/ notifyFacilitatorEndOfCourseRunFinalize
    \/ scheduleNotifyFacilitatorEndOfCourseRunFinalize
    \/ \E row \in DOMAIN jobs, ok \in BOOLEAN : PushSettles(row, ok)
    \/ \E row \in DOMAIN jobs, ok \in BOOLEAN : EmailSettles(row, ok)
    \/ \E send \in pending, ok \in BOOLEAN : SendSettles(send, ok)
    \/ Join
    \/ Discard
    \/ InsertGroupMember
    \/ DeleteGroupMember
    \/ InsertCourseManager
    \/ DeleteCourseManager
    \/ UpdateCourseRun
    \/ DeleteCourseRun
    \/ UpdateCourseActivity
    \/ UpdateActivity
    \/ DeleteActivity
    \/ InsertAssignmentSubmission
    \/ InsertQuizAttempt
    \/ InsertExamSubmission
    \/ UpdateUser
    \/ UpdateGroup
    \/ UpdateCourse

Spec == Init /\ [][Next]_vars

\* ------------------------------------------------------------------- claims

\* calls made to the notification service for user u on channel ch in fan-out h
Attempts(h, ch, u) == att[<<h, ch, u>>]

NoAttemptAtAll == \A k \in DOMAIN att : att[k] = 0

IsStudentOf(g, u) == <<g, u, "student">> \in db.members

IsManagerOf(c, u) == <<c, u>> \in db.managers

RunScopedStudentTasks ==
    { "sendStudentDeadlineNotification", "notifyScorePublished",
      "notifyActivityPosted", "notifyNewDocumentAdded" }

\* the group of the run the invocation names
TaskGroup == db.runs[task.p.runId].group_id

\* C1 (group isolation): a run-scoped student task that has resolved its run
\* calls push and email once for every user with a student membership row in
\* the run's group, and never for a user without such a row (a student of other
\* groups only, or a member of the run's group in another role).
C1_GroupIsolation ==
    (task.kind \in RunScopedStudentTasks /\ outcome \in {"running", "ok"}) =>
        \A u \in Users, ch \in Channels :
            /\ ~IsStudentOf(TaskGroup, u) => Attempts("student", ch, u) = 0
            /\ (outcome = "ok" /\ IsStudentOf(TaskGroup, u))
                   => Attempts("student", ch, u) = 1

\* a returned deadline reminder that reached a student of the run's group and
\* left out a student of another group and a teacher of the run's group
C1_Witness ==
    /\ task.kind = "sendStudentDeadlineNotification"
    /\ outcome = "ok"
    /\ task.p.runId \in DOMAIN db.runs
    /\ \E u \in Users :
          IsStudentOf(TaskGroup, u) /\ Attempts("student", "push", u) = 1
                                    /\ Attempts("student", "email", u) = 1
    /\ \E u \in Users :
          /\ <<TaskGroup, u, "teacher">> \in db.members
          /\ ~IsStudentOf(TaskGroup, u)
          /\ Attempts("student", "push", u) = 0
    /\ \E u \in Users, g \in GroupIds :
          /\ g # TaskGroup /\ IsStudentOf(g, u) /\ ~IsStudentOf(TaskGroup, u)
          /\ Attempts("student", "push", u) = 0
          /\ Attempts("student", "email", u) = 0

\* the course a course-scoped manager task resolves: the course-activity's
\* course, or the run's course for the tasks that name no course-activity
TaskCourse ==
    IF task.kind \in {"sendManagerDeadlineWarning",
                      "notifyFacilitatorPostDeadlineSummary"}
    THEN db.cas[task.p.courseActivityId].course_id
    ELSE IF task.kind = "notifyNewDocumentAdded"
    THEN db.runs[task.p.runId].course_id
    ELSE db.runs[task.p.courseRunId].course_id

CourseScopedManagerTasks ==
    { "sendManagerDeadlineWarning", "notifyFacilitatorPostDeadlineSummary",
      "notifyNewDocumentAdded", "notifyFacilitatorEndOfCourseRunFinalize" }

\* C2 as stated (manager isolation): a course-scoped manager task that has
\* resolved calls push and email once for every manager of the resolved course
\* and never for anyone else.
C2_AsStated ==
    (task.kind \in CourseScopedManagerTasks /\ outcome \in {"running", "ok"}) =>
        \A u \in Users, ch \in Channels :
            /\ ~IsManagerOf(TaskCourse, u) => Attempts("manager", ch, u) = 0
            /\ (outcome = "ok" /\ IsManagerOf(TaskCourse, u))
                   => Attempts("manager", ch, u) = 1

\* the post-deadline summary returns before its manager query when the run's
\* group has no student
SummaryOverEmptyGroup ==
    /\ task.kind = "notifyFacilitatorPostDeadlineSummary"
    /\ \A u \in Users : ~IsStudentOf(TaskGroup, u)

\* C2 amended: as stated, except that the post-deadline summary of a run whose
\* group has no student calls nobody.
C2_ManagerIsolation ==
    (task.kind \in CourseScopedManagerTasks /\ outcome \in {"running", "ok"}) =>
        \A u \in Users, ch \in Channels :
            /\ ~IsManagerOf(TaskCourse, u) => Attempts("manager", ch, u) = 0
            /\ (outcome = "ok" /\ IsManagerOf(TaskCourse, u))
                   => Attempts("manager", ch, u)
                        = IF SummaryOverEmptyGroup THEN 0 ELSE 1

\* a returned manager warning that reached the manager of the course and left
\* out a user who manages another course only
C2_Witness ==
    /\ task.kind = "sendManagerDeadlineWarning"
    /\ outcome = "ok"
    /\ \E u \in Users :
          IsManagerOf(TaskCourse, u) /\ Attempts("manager", "push", u) = 1
                                     /\ Attempts("manager", "email", u) = 1
    /\ \E u \in Users, c \in CourseIds :
          /\ c # TaskCourse /\ IsManagerOf(c, u) /\ ~IsManagerOf(TaskCourse, u)
          /\ Attempts("manager", "push", u) = 0
          /\ Attempts("manager", "email", u) = 0

\* C3 (multi-group correctness): when a run-scoped student task returns, a user
\* who is a student of the run's group and of another group has had exactly one
\* push and one email call, and a student of the other group only has had none.
C3_MultiGroup ==
    (task.kind \in RunScopedStudentTasks /\ outcome = "ok") =>
        \A u \in Users, g1 \in GroupIds :
            (g1 # TaskGroup /\ IsStudentOf(g1, u)) =>
                \A ch \in Channels :
                    Attempts("student", ch, u)
                        = IF IsStudentOf(TaskGroup, u) THEN 1 ELSE 0

\* a returned task for a run whose group shares a student with another group:
\* the shared student was called once, a student of the other group only never
C3_Witness ==
    /\ task.kind \in RunScopedStudentTasks
    /\ outcome = "ok"
    /\ \E u \in Users, v \in Users, g1 \in GroupIds :
          /\ g1 # TaskGroup
          /\ IsStudentOf(g1, u) /\ IsStudentOf(TaskGroup, u)
          /\ Attempts("student", "push", u) = 1
          /\ Attempts("student", "email", u) = 1
          /\ IsStudentOf(g1, v) /\ ~IsStudentOf(TaskGroup, v)
          /\ Attempts("student", "push", v) = 0
          /\ Attempts("student", "email", v) = 0

\* C4 (partial failure containment): when a task returns, every recipient of
\* its fan-outs has had as many email calls as push calls, whichever calls
\* failed: the email call follows a failed push call, and the recipients of the
\* fan-out it ended with have each had a push call and an email call.
C4_FailureContainment ==
    outcome = "ok" =>
        /\ \A h \in Halves, u \in Users :
              Attempts(h, "email", u) = Attempts(h, "push", u)
        /\ \A row \in DOMAIN jobs :
              /\ Attempts(half, "push", RowUser(row)) >= 1
              /\ Attempts(half, "email", RowUser(row)) >= 1
        /\ \A f \in failed : Attempts(f[1], "email", RowUser(f[3])) >= 1

\* a returned fan-out in which one recipient's push call failed, that recipient
\* still had the email call, and another recipient had both calls
C4_Witness ==
    /\ outcome = "ok"
    /\ \E a \in DOMAIN jobs, b \in DOMAIN jobs :
          /\ a # b
          /\ <<half, "push", a>> \in failed
          /\ Attempts(half, "email", RowUser(a)) = 1
          /\ Attempts(half, "push", RowUser(b)) = 1
          /\ Attempts(half, "email", RowUser(b)) = 1

\* the activity of the course-activity the invocation names
TaskActivity == db.cas[task.p.courseActivityId].activity_id

TaskActivityType == db.acts[TaskActivity].type

\* the users with a submission record for (activityId, runId) in the table of
\* the activity's type: an assignment submission, a completed quiz attempt, a
\* submitted exam
SubmissionRecordOf(activityType, activityId, runId) ==
    IF activityType = "assignment"
    THEN { x[3] : x \in { y \in db.asub : y[1] = activityId /\ y[2] = runId } }
    ELSE IF activityType = "quiz"
    THEN { x[3] : x \in { y \in db.quiz :
                            y[1] = activityId /\ y[2] = runId /\ y[4] # NULL } }
    ELSE IF activityType = "exam"
    THEN { x[3] : x \in { y \in db.exam :
                            y[1] = activityId /\ y[2] = runId /\ y[4] # NULL } }
    ELSE {}

TaskSubmitted == SubmissionRecordOf(TaskActivityType, TaskActivity, task.p.runId)

\* C5 as stated (missed-deadline exclusion): when notifyMissedDeadline returns,
\* a user has had one push and one email call if the user is a student of the
\* run's group without a submission record for the activity and the run, and no
\* call otherwise.
C5_AsStated ==
    (task.kind = "notifyMissedDeadline" /\ outcome = "ok") =>
        \A u \in Users, ch \in Channels :
            Attempts("student", ch, u)
                = IF IsStudentOf(TaskGroup, u) /\ u \notin TaskSubmitted
                  THEN 1 ELSE 0

\* the students of the run's group none of whose quiz attempts for the
\* activity and the run is completed
QuizNotCompleted ==
    { u \in Users :
        /\ IsStudentOf(TaskGroup, u)
        /\ \A x \in db.quiz :
              (x[1] = TaskActivity /\ x[2] = task.p.runId /\ x[3] = u)
                  => x[4] = NULL }

\* C6 as stated (completed-only quiz rule): for a quiz, notifyMissedDeadline
\* calls every student of the run's group who has no completed attempt, and the
\* post-deadline summary counts exactly those students as not submitted.
C6_AsStated ==
    /\ ( /\ task.kind = "notifyMissedDeadline"
         /\ outcome = "ok"
         /\ TaskActivityType = "quiz" )
       => \A u \in QuizNotCompleted : Attempts("student", "push", u) = 1
    /\ ( /\ task.kind = "notifyFacilitatorPostDeadlineSummary"
         /\ outcome \in {"running", "ok"}
         /\ DOMAIN jobs # {}
         /\ TaskActivityType = "quiz" )
       => task.info.notSubmitted = Cardinality(QuizNotCompleted)

DispatchingTasks ==
    { "sendStudentDeadlineNotification", "sendManagerDeadlineWarning",
      "notifyScorePublished", "notifyActivityPosted", "notifyRedoEnabled",
      "notifyStudentOnAddedToGroup", "notifyNewDocumentAdded",
      "notifyMissedDeadline", "notifyFacilitatorPostDeadlineSummary",
      "notifyFacilitatorEndOfCourseRunFinalize" }

HasField(f) == f \in DOMAIN task.p

\* the course-activity the invocation names cannot be resolved: its row, its
\* activity or its course is missing, or the activity's payload does not parse
\* to an object with a title
CourseActivityUnresolved ==
    /\ HasField("courseActivityId")
    /\ \/ task.p.courseActivityId \notin DOMAIN db.cas
       \/ TaskActivity \notin DOMAIN db.acts
       \/ db.cas[task.p.courseActivityId].course_id \notin DOMAIN db.courses
       \/ PayloadError(db.acts[TaskActivity].payload) # ""

NamedUserMissing == HasField("userId") /\ task.p.userId \notin DOMAIN db.users

Invoked == outcome \in {"running", "ok", "raised"}

\* C7 as stated (resolution errors are fatal): an invocation of a notification
\* task whose course-activity cannot be resolved, or whose named user is
\* missing, raises, and has made no push or email call.
C7_AsStated ==
    ( /\ task.kind \in DispatchingTasks
      /\ Invoked
      /\ (CourseActivityUnresolved \/ NamedUserMissing) )
    => (outcome = "raised" /\ NoAttemptAtAll)

\* the same for every notification task but notifyRedoEnabled
C7_ButRedo ==
    ( /\ task.kind \in DispatchingTasks \ {"notifyRedoEnabled"}
      /\ Invoked
      /\ (CourseActivityUnresolved \/ NamedUserMissing) )
    => (outcome = "raised" /\ NoAttemptAtAll)

RunBearingTasks ==
    { "sendStudentDeadlineNotification", "sendManagerDeadlineWarning",
      "notifyScorePublished", "notifyActivityPosted", "notifyRedoEnabled",
      "notifyNewDocumentAdded", "notifyMissedDeadline",
      "notifyFacilitatorPostDeadlineSummary" }

RunMissing == task.p.runId \notin DOMAIN db.runs

RunHasNoGroup == ~RunMissing /\ Falsy(db.runs[task.p.runId].group_id)

RunHasNoName == ~RunMissing /\ Falsy(db.runs[task.p.runId].name)

\* C8 as stated (missing run): an invocation of a run-bearing task whose run
\* does not exist, has no group or has no name raises, and has made no push or
\* email call.
C8_AsStated ==
    ( /\ task.kind \in RunBearingTasks
      /\ Invoked
      /\ (RunMissing \/ RunHasNoGroup \/ RunHasNoName) )
    => (outcome = "raised" /\ NoAttemptAtAll)

\* notifyRedoEnabled raises for its course-activity, its course's name or its
\* user only
RedoRaisesForRunOnlyNever ==
    (task.kind = "notifyRedoEnabled" /\ outcome = "raised") =>
        \/ CourseActivityUnresolved
        \/ Falsy(db.courses[db.cas[task.p.courseActivityId].course_id].name)
        \/ NamedUserMissing
        \/ Falsy(db.users[task.p.userId].name)

\* C8 amended: a run-bearing task other than notifyRedoEnabled raises without a
\* push or email call when its run does not exist; so it does when the run has
\* no group, except sendManagerDeadlineWarning, and when the run has no name,
\* except notifyNewDocumentAdded; notifyRedoEnabled never raises for its run.
C8_MissingRun ==
    /\ ( /\ task.kind \in RunBearingTasks \ {"notifyRedoEnabled"}
         /\ Invoked
         /\ \/ RunMissing
            \/ RunHasNoGroup /\ task.kind # "sendManagerDeadlineWarning"
            \/ RunHasNoName /\ task.kind # "notifyNewDocumentAdded" )
       => (outcome = "raised" /\ NoAttemptAtAll)
    /\ RedoRaisesForRunOnlyNever

\* a deadline reminder for a run id without a row, everything else resolving:
\* it raised for the run and called nobody
C8_Witness ==
    /\ task.kind = "sendStudentDeadlineNotification"
    /\ RunMissing
    /\ ~CourseActivityUnresolved
    /\ outcome = "raised"
    /\ err = "GroupNotFound"
    /\ NoAttemptAtAll

TypeGatedTasks ==
    { "scheduleStudentDeadlineNotification", "sendStudentDeadlineNotification",
      "scheduleManagerDeadlineWarning", "sendManagerDeadlineWarning",
      "scheduleNotifyMissedDeadline", "notifyMissedDeadline",
      "scheduleNotifyFacilitatorPostDeadlineSummary",
      "notifyFacilitatorPostDeadlineSummary" }

TypeGatedScheduleSteps ==
    { "scheduleStudentDeadlineNotification", "scheduleManagerDeadlineWarning",
      "scheduleNotifyMissedDeadline",
      "scheduleNotifyFacilitatorPostDeadlineSummary" }

\* the invocation's course-activity has an activity of another type than quiz,
\* assignment and exam
ActivityIsNotGraded ==
    /\ task.p.courseActivityId \in DOMAIN db.cas
    /\ TaskActivity \in DOMAIN db.acts
    /\ TaskActivityType \notin {"quiz", "assignment", "exam"}

\* C9 as stated (activity-type gate): an invocation of a schedule step or a
\* fire step of the deadline reminder, manager warning, missed-deadline or
\* post-deadline summary kind for an activity that is not a quiz, an assignment
\* or an exam does not raise, registers no fire and makes no push or email call.
C9_AsStated ==
    (task.kind \in TypeGatedTasks /\ Invoked /\ ActivityIsNotGraded) =>
        (outcome # "raised" /\ scheduled = {} /\ NoAttemptAtAll)

\* the same for the schedule steps alone
C9_ScheduleSteps ==
    (task.kind \in TypeGatedScheduleSteps /\ Invoked /\ ActivityIsNotGraded) =>
        (outcome = "ok" /\ scheduled = {} /\ NoAttemptAtAll)

\* the run the invocation names, as runId or courseRunId
TaskRunId == IF HasField("runId") THEN task.p.runId ELSE task.p.courseRunId

\* every row the invocation reads for its context is there and complete
ContextResolves ==
    /\ HasField("courseActivityId") =>
          /\ ~CourseActivityUnresolved
          /\ ~Falsy(db.courses[db.cas[task.p.courseActivityId].course_id].name)
    /\ TaskRunId \in DOMAIN db.runs
    /\ db.runs[TaskRunId].group_id \in DOMAIN db.groups
    /\ db.runs[TaskRunId].course_id \in DOMAIN db.courses
    /\ ~Falsy(db.runs[TaskRunId].name)
    /\ ~Falsy(db.courses[db.runs[TaskRunId].course_id].name)

GroupScopedTasks ==
    { "sendStudentDeadlineNotification", "notifyScorePublished",
      "notifyActivityPosted", "notifyMissedDeadline", "notifyNewDocumentAdded" }

NoStudentInGroup ==
    \A u \in Users : ~IsStudentOf(db.runs[TaskRunId].group_id, u)

NoManagerOfCourse == \A u \in Users : ~IsManagerOf(TaskCourse, u)

EveryStudentSubmitted ==
    \A u \in Users :
        IsStudentOf(db.runs[TaskRunId].group_id, u) => u \in TaskSubmitted

NoAttemptIn(h) == \A ch \in Channels, u \in UserIds : Attempts(h, ch, u) = 0

\* C10 (no-recipient short-circuit): an invocation whose context resolves does
\* not raise and makes no push or email call to students when the run's group
\* has no student, none to managers when the course has no manager, and
\* notifyMissedDeadline none at all when every student has submitted.
C10_NoRecipient ==
    (Invoked /\ task.kind \in GroupScopedTasks \cup CourseScopedManagerTasks
             /\ ContextResolves) =>
        /\ (task.kind \in GroupScopedTasks /\ NoStudentInGroup)
              => (outcome # "raised" /\ NoAttemptIn("student"))
        /\ (task.kind \in CourseScopedManagerTasks /\ NoManagerOfCourse)
              => (outcome # "raised" /\ NoAttemptIn("manager"))
        /\ (task.kind = "notifyMissedDeadline" /\ EveryStudentSubmitted)
              => (outcome = "ok" /\ NoAttemptAtAll)

\* a returned missed-deadline notification for a run whose group has a student
\* and all its students have submitted: nobody was called
C10_Witness ==
    /\ task.kind = "notifyMissedDeadline"
    /\ outcome = "ok"
    /\ ContextResolves
    /\ ~NoStudentInGroup
    /\ EveryStudentSubmitted
    /\ NoAttemptAtAll

\* a returned deadline reminder for a run whose group has no student
C10_EmptyGroupReached ==
    /\ task.kind = "sendStudentDeadlineNotification"
    /\ outcome = "ok"
    /\ ContextResolves
    /\ NoStudentInGroup
    /\ NoAttemptAtAll

\* a returned manager warning for a course without a manager
C10_NoManagerReached ==
    /\ task.kind = "sendManagerDeadlineWarning"
    /\ outcome = "ok"
    /\ ContextResolves
    /\ NoManagerOfCourse
    /\ NoAttemptAtAll

\* C11 (delivery failures never fail the task): an invocation that has passed
\* resolution and started its deliveries never raises, whichever push and email
\* calls fail; it stays running until it returns.
C11_DeliveryNeverFails ==
    [][outcome = "running" => outcome' \in {"running", "ok"}]_vars

\* a returned fan-out over two recipients or more in which every push call and
\* every email call failed
C11_Witness ==
    /\ outcome = "ok"
    /\ Cardinality(DOMAIN jobs) >= 2
    /\ \A row \in DOMAIN jobs, ch \in Channels : <<half, ch, row>> \in failed

\* a returned single-recipient task whose push call and email call both failed
C11_SingleRecipientReached ==
    /\ task.kind \in {"notifyRedoEnabled", "notifyStudentOnAddedToGroup"}
    /\ outcome = "ok"
    /\ \E row \in DOMAIN jobs :
          <<half, "push", row>> \in failed /\ <<half, "email", row>> \in failed

\* the tasks that deliver over Promise.allSettled
FanOutTasks ==
    DispatchingTasks \ {"notifyRedoEnabled", "notifyStudentOnAddedToGroup"}

\* every recipient's job of the fan-outs of the invocation has run to its end
EveryJobDone == later = {} /\ \A row \in DOMAIN jobs : jobs[row] = "done"

\* C12 as stated (wait-for-all join): when a task has returned, every delivery
\* it started has settled: every recipient's push call and email call, and
\* every web-push send to a subscription of a recipient.
C12_AsStated ==
    (task.kind \in FanOutTasks /\ outcome = "ok") => (EveryJobDone /\ pending = {})

\* the same for the push and email calls alone: no recipient's call is
\* unsettled when the task returns
C12_CallsSettled == (task.kind \in FanOutTasks /\ outcome = "ok") => EveryJobDone

FireSteps ==
    { "sendStudentDeadlineNotification", "sendManagerDeadlineWarning",
      "notifyMissedDeadline", "notifyFacilitatorPostDeadlineSummary" }

\* the invocation is a fire the scheduler was given by a schedule step
FiredByScheduler == task.kind \in FireSteps /\ task.registered >= 0

\* what the submission queries answer on the store as it is now
SubmittedNow == SubmittedIds(TaskActivityType, TaskActivity, task.p.runId)

\* the users a fire step has to call, read from the store as it is now
FreshRecipients ==
    CASE task.kind = "sendStudentDeadlineNotification" ->
            { u \in Users : IsStudentOf(TaskGroup, u) }
      [] task.kind = "notifyMissedDeadline" ->
            { u \in Users : IsStudentOf(TaskGroup, u) /\ u \notin SubmittedNow }
      [] task.kind = "sendManagerDeadlineWarning" ->
            { u \in Users : IsManagerOf(TaskCourse, u) }
      [] task.kind = "notifyFacilitatorPostDeadlineSummary" ->
            { u \in Users : IsManagerOf(TaskCourse, u) /\ ~SummaryOverEmptyGroup }

\* the names a registration with the scheduler may carry
FireFields ==
    { "kind", "courseActivityId", "runId", "courseRunId", "deadline", "delay",
      "registered" }

\* C13 (fresh resolution at fire time): a fire step run from a schedule step's
\* registration calls exactly the users the store gives when it runs, whatever
\* the store was when the schedule step ran; the registration carries ids and
\* the deadline only, no recipient and no name.
C13_FreshResolution ==
    /\ \A f \in scheduled : DOMAIN f \subseteq FireFields
    /\ (FiredByScheduler /\ outcome = "ok") =>
          \A u \in Users, h \in Halves, ch \in Channels :
              Attempts(h, ch, u)
                  = IF u \in FreshRecipients /\ h = half THEN 1 ELSE 0

\* a deadline reminder registered before the one store edit and fired after it:
\* the edit added a student to the run's group, and that student was called
C13_Witness ==
    /\ task.kind = "sendStudentDeadlineNotification"
    /\ task.registered = 0
    /\ edits = 1
    /\ outcome = "ok"
    /\ \E u \in Users :
          /\ IsStudentOf(TaskGroup, u)
          /\ <<TaskGroup, u, "student">> \notin BaseStore.members
          /\ Attempts("student", "push", u) = 1
          /\ Attempts("student", "email", u) = 1

\* the same with a student removed in between: not called
C13_RemovedReached ==
    /\ task.kind = "sendStudentDeadlineNotification"
    /\ task.registered = 0
    /\ edits = 1
    /\ outcome = "ok"
    /\ \E u \in Users :
          /\ ~IsStudentOf(TaskGroup, u)
          /\ <<TaskGroup, u, "student">> \in BaseStore.members
          /\ Attempts("student", "push", u) = 0
          /\ Attempts("student", "email", u) = 0

\* a missed-deadline fire registered before a student's submission was
\* recorded: the student is not called
C13_SubmittedReached ==
    /\ task.kind = "notifyMissedDeadline"
    /\ task.registered = 0
    /\ edits = 1
    /\ outcome = "ok"
    /\ BaseStore.members = db.members
    /\ \E u \in Users :
          /\ IsStudentOf(TaskGroup, u)
          /\ TaskActivityType = "quiz"
          /\ <<TaskActivity, task.p.runId, u, "T">> \in db.quiz
          /\ \A x \in BaseStore.quiz :
                ~(x[1] = TaskActivity /\ x[2] = task.p.runId /\ x[3] = u)
          /\ Attempts("student", "push", u) = 0

\* the fire step each schedule step registers
FireOf(kind) ==
    CASE kind = "scheduleStudentDeadlineNotification" ->
            "sendStudentDeadlineNotification"
      [] kind = "scheduleManagerDeadlineWarning" -> "sendManagerDeadlineWarning"
      [] kind = "scheduleNotifyMissedDeadline" -> "notifyMissedDeadline"
      [] kind = "scheduleNotifyFacilitatorPostDeadlineSummary" ->
            "notifyFacilitatorPostDeadlineSummary"
      [] kind = "scheduleNotifyFacilitatorEndOfCourseRunFinalize" ->
            "notifyFacilitatorEndOfCourseRunFinalize"

\* minutes between the deadline and the fire of each deadline kind
OffsetOf(kind) == IF kind = "scheduleManagerDeadlineWarning" THEN 30 ELSE 0

\* the schedule step's course-activity has an activity that is a quiz, an
\* assignment or an exam
PassesTypeGate ==
    /\ task.p.courseActivityId \in DOMAIN db.cas
    /\ TaskActivity \in DOMAIN db.acts
    /\ TaskActivityType \in {"quiz", "assignment", "exam"}

FinalizeRunHasEndDate ==
    /\ task.p.courseRunId \in DOMAIN db.runs
    /\ ~Falsy(db.runs[task.p.courseRunId].end_date)

\* C14 (schedule offsets): a schedule step that passes the type gate registers
\* one fire, of its own kind, for the courseActivityId and runId of its
\* payload, at the deadline, or 30 minutes before it for the manager warning;
\* the finalize schedule step registers one fire for its run at the run's end
\* date, and raises without a registration when the run or its end date is
\* missing.
C14_ScheduleOffsets ==
    /\ (task.kind \in TypeGatedScheduleSteps /\ Invoked /\ PassesTypeGate) =>
          /\ outcome = "ok"
          /\ Cardinality(scheduled) = 1
          /\ \A f \in scheduled :
                /\ f.kind = FireOf(task.kind)
                /\ f.courseActivityId = task.p.courseActivityId
                /\ f.runId = task.p.runId
                /\ f.delay = task.p.deadline - OffsetOf(task.kind)
    /\ (task.kind = "scheduleNotifyFacilitatorEndOfCourseRunFinalize" /\ Invoked) =>
          IF FinalizeRunHasEndDate
          THEN /\ outcome = "ok"
               /\ Cardinality(scheduled) = 1
               /\ \A f \in scheduled :
                     /\ f.kind = FireOf(task.kind)
                     /\ f.courseRunId = task.p.courseRunId
                     /\ f.delay = db.runs[task.p.courseRunId].end_date
          ELSE outcome = "raised" /\ scheduled = {}

\* a returned manager-warning schedule step for the deadline 45: one fire, at 15
C14_Witness ==
    /\ task.kind = "scheduleManagerDeadlineWarning"
    /\ outcome = "ok"
    /\ PassesTypeGate
    /\ task.p.deadline = 45
    /\ \E f \in scheduled :
          /\ scheduled = {f}
          /\ f.kind = "sendManagerDeadlineWarning"
          /\ f.delay = 15

\* a finalize schedule step that raised for a run without an end date
C14_NoEndDateReached ==
    /\ task.kind = "scheduleNotifyFacilitatorEndOfCourseRunFinalize"
    /\ task.p.courseRunId \in DOMAIN db.runs
    /\ outcome = "raised"
    /\ err = "EndDateNotFound"
    /\ scheduled = {}

\* the invocation runs notifyMissedDeadline again with the payload of the run
\* before it
IsRerun ==
    /\ task.kind = "notifyMissedDeadline"
    /\ task.previous.kind = "notifyMissedDeadline"

\* the store of the run before
StoreBefore == task.previous.db

\* the submission records of the invocation's activity and run in the store of
\* the run before
SubmittedBefore ==
    LET type == StoreBefore.acts[TaskActivity].type
        a    == TaskActivity
        r    == task.p.runId
    IN  IF type = "assignment"
        THEN { x[3] : x \in { y \in StoreBefore.asub : y[1] = a /\ y[2] = r } }
        ELSE IF type = "quiz"
        THEN { x[3] : x \in { y \in StoreBefore.quiz :
                                y[1] = a /\ y[2] = r /\ y[4] # NULL } }
        ELSE IF type = "exam"
        THEN { x[3] : x \in { y \in StoreBefore.exam :
                                y[1] = a /\ y[2] = r /\ y[4] # NULL } }
        ELSE {}

\* between the two runs nothing happened but submissions being recorded: every
\* table but the submission tables is as it was, and the new rows are
\* submissions (a completed attempt, a submitted exam)
OnlySubmissionsRecorded ==
    /\ \A f \in DOMAIN db \ {"asub", "quiz", "exam"} : db[f] = StoreBefore[f]
    /\ StoreBefore.asub \subseteq db.asub
    /\ StoreBefore.quiz \subseteq db.quiz
    /\ StoreBefore.exam \subseteq db.exam
    /\ \A x \in (db.quiz \ StoreBefore.quiz) \cup (db.exam \ StoreBefore.exam) :
          x[4] # NULL

\* C15 (submission exclusion on re-run): when notifyMissedDeadline has run,
\* students have then recorded submissions for the activity and the run, and
\* it runs again, the second run calls none of these students, and calls every
\* other user if and only if the first run called that user.
C15_RerunExclusion ==
    (IsRerun /\ outcome = "ok" /\ OnlySubmissionsRecorded) =>
        \A u \in Users, ch \in Channels :
            Attempts("student", ch, u)
                = IF u \in TaskSubmitted \ SubmittedBefore THEN 0
                  ELSE IF u \in task.previous.notified THEN 1 ELSE 0

\* a second run after a student the first run called recorded a submission:
\* that student is not called, another student is called as before
C15_Witness ==
    /\ IsRerun
    /\ outcome = "ok"
    /\ OnlySubmissionsRecorded
    /\ \E u \in Users, v \in Users :
          /\ u \in task.previous.notified
          /\ u \in TaskSubmitted \ SubmittedBefore
          /\ Attempts("student", "push", u) = 0
          /\ Attempts("student", "email", u) = 0
          /\ v \in task.previous.notified
          /\ Attempts("student", "push", v) = 1
          /\ Attempts("student", "email", v) = 1

\* the summary has built its content: it is past both of its early returns
SummaryBuilt ==
    /\ task.kind = "notifyFacilitatorPostDeadlineSummary"
    /\ outcome \in {"running", "ok"}
    /\ DOMAIN jobs # {}

StudentsOfTaskGroup == { u \in Users : IsStudentOf(TaskGroup, u) }

\* C16 as stated (summary counts): the notSubmitted count of the summary is the
\* size of the student set of the run's group minus the size of the
\* submitted-id set of the activity and the run.
C16_AsStated ==
    SummaryBuilt =>
        task.info.notSubmitted
            = Cardinality(StudentsOfTaskGroup) - Cardinality(TaskSubmitted)

\* the same with the submitted-id set as the task's own query answers it
C16_AsStatedOverQuery ==
    SummaryBuilt =>
        task.info.notSubmitted
            = Cardinality(StudentsOfTaskGroup) - Cardinality(SubmittedNow)

\* C16 amended: the notSubmitted count is the number of students of the run's
\* group whose id the task's submission query does not return and the submitted
\* count the number of those whose id it returns, so both are between zero and
\* the size of the group and a record of a user outside the group counts for
\* nothing; the managers called are the managers of the course, whatever the
\* submissions are.
C16_SummaryCounts ==
    SummaryBuilt =>
        /\ task.info.notSubmitted
              = Cardinality(StudentsOfTaskGroup \ SubmittedNow)
        /\ task.info.submitted
              = Cardinality(StudentsOfTaskGroup \cap SubmittedNow)
        /\ outcome = "ok" =>
              \A u \in Users, ch \in Channels :
                  Attempts("manager", ch, u)
                      = IF IsManagerOf(TaskCourse, u) THEN 1 ELSE 0

\* a returned summary for a group of two students, one with a record, and a
\* user outside the group with a record: one submitted, one not
C16_Witness ==
    /\ SummaryBuilt
    /\ outcome = "ok"
    /\ Cardinality(StudentsOfTaskGroup) = 2
    /\ SubmittedNow \ StudentsOfTaskGroup # {}
    /\ SubmittedNow \cap StudentsOfTaskGroup # {}
    /\ task.info.submitted = 1
    /\ task.info.notSubmitted = 1
    /\ \E u \in Users : Attempts("manager", "push", u) = 1

SingleRecipientTasks == {"notifyRedoEnabled", "notifyStudentOnAddedToGroup"}

\* what a single-recipient task reads besides its user is there and complete
SingleContextResolves ==
    IF task.kind = "notifyStudentOnAddedToGroup"
    THEN /\ task.p.groupId \in DOMAIN db.groups
         /\ ~Falsy(db.groups[task.p.groupId].name)
    ELSE /\ ~CourseActivityUnresolved
         /\ ~Falsy(db.courses[db.cas[task.p.courseActivityId].course_id].name)

\* the user of the payload has had one push and one email call once the task
\* has returned, and nobody else has had any
OnlyPayloadUserCalled ==
    \A u \in UserIds, h \in Halves, ch \in Channels :
        /\ (u # task.p.userId \/ h # "user") => Attempts(h, ch, u) = 0
        /\ (outcome = "ok" /\ u = task.p.userId /\ h = "user")
              => Attempts(h, ch, u) = 1

\* C17 as stated (single-recipient kinds): an invocation of notifyRedoEnabled
\* or notifyStudentOnAddedToGroup for an existing user and a resolvable context
\* does not raise and makes one push call and one email call, both for the
\* user of the payload, and none for anyone else.
C17_AsStated ==
    ( /\ task.kind \in SingleRecipientTasks
      /\ Invoked
      /\ task.p.userId \in DOMAIN db.users
      /\ SingleContextResolves )
    => (outcome # "raised" /\ OnlyPayloadUserCalled)

\* the same for users who have a name
C17_NamedUser ==
    ( /\ task.kind \in SingleRecipientTasks
      /\ Invoked
      /\ task.p.userId \in DOMAIN db.users
      /\ ~Falsy(db.users[task.p.userId].name)
      /\ SingleContextResolves )
    => (outcome # "raised" /\ OnlyPayloadUserCalled)

\* a returned notifyStudentOnAddedToGroup for a user who is a student of two
\* groups: one push call and one email call
C17_NamedUserReached ==
    /\ task.kind = "notifyStudentOnAddedToGroup"
    /\ outcome = "ok"
    /\ \E g \in GroupIds, h \in GroupIds :
          g # h /\ IsStudentOf(g, task.p.userId) /\ IsStudentOf(h, task.p.userId)
    /\ Attempts("user", "push", task.p.userId) = 1
    /\ Attempts("user", "email", task.p.userId) = 1

HasNoEmail(u) == Falsy(EmailQuery(u))

\* the messages the mail gateway was given for a recipient row of the fan-out
\* in progress
MailFor(row) == { m \in mail : m.half = half /\ m.row = row }

\* C18 (missing email is a silent skip): an email call for a user without an
\* email address, or without a user row, hands nothing to the mail gateway and
\* does not throw; the recipient's push call is made as for anyone, and when
\* the task returns every other recipient with an address has had the push
\* call, the email call and a message at the gateway.
C18_MissingEmailSkipped ==
    /\ \A u \in UserIds :
          HasNoEmail(u) => sendEmailNotification(<<u, "subject", "body">>) = {}
    /\ \A row \in DOMAIN jobs :
          HasNoEmail(RowUser(row)) =>
              /\ MailFor(row) = {}
              /\ <<half, "email", row>> \notin failed
              /\ Attempts(half, "push", RowUser(row)) >= 1
    /\ outcome = "ok" =>
          \A row \in DOMAIN jobs :
              /\ Attempts(half, "email", RowUser(row)) >= 1
              /\ ~HasNoEmail(RowUser(row)) => MailFor(row) # {}

\* a returned fan-out with a recipient without an email address, whose email
\* call was made and gave the gateway nothing, and another recipient whose
\* message reached the gateway
C18_Witness ==
    /\ outcome = "ok"
    /\ \E a \in DOMAIN jobs, b \in DOMAIN jobs :
          /\ HasNoEmail(RowUser(a))
          /\ Attempts(half, "push", RowUser(a)) = 1
          /\ Attempts(half, "email", RowUser(a)) = 1
          /\ MailFor(a) = {}
          /\ ~HasNoEmail(RowUser(b))
          /\ Attempts(half, "push", RowUser(b)) = 1
          /\ MailFor(b) # {}

\* the template the invocation builds its emails from
TaskTemplate == emailTemplates(TemplateOf(task.kind))

\* C19 as stated (email content reaches the gateway unchanged): every message
\* an invocation hands to the mail gateway has the subject and the body of the
\* template of its kind.
C19_AsStated ==
    \A m \in mail :
        /\ m.message.subject = TaskTemplate.subject
        /\ m.message.textbody = TaskTemplate.body

\* what the gateway is given: the template's subject, and the template's
\* heading in the place of the body
C19_HeadingAsBody ==
    \A m \in mail :
        /\ m.message.subject = TaskTemplate.subject
        /\ m.message.textbody = TaskTemplate.heading
        /\ m.message.to = EmailQuery(RowUser(m.row))

\* C20 (no duplicate recipients): the recipient rows of a fan-out have distinct
\* user ids, and no user has more than one push call and one email call in one
\* fan-out.
C20_NoDuplicates ==
    /\ \A a \in DOMAIN jobs, b \in DOMAIN jobs : RowUser(a) = RowUser(b) => a = b
    /\ \A h \in Halves, ch \in Channels, u \in UserIds : Attempts(h, ch, u) <= 1

\* a returned student fan-out for a group in which a student has a second
\* membership row, or is a student of another group as well: one push call and
\* one email call, and another student was called too
C20_Witness ==
    /\ task.kind \in RunScopedStudentTasks \cup {"notifyMissedDeadline"}
    /\ outcome = "ok"
    /\ half = "student"
    /\ Cardinality(DOMAIN jobs) >= 2
    /\ \E row \in DOMAIN jobs, m \in db.members :
          /\ m # row
          /\ m[2] = RowUser(row)
          /\ Attempts("student", "push", RowUser(row)) = 1
          /\ Attempts("student", "email", RowUser(row)) = 1

\* the same for a student with a second row in the very group of the run
C20_TwoRolesReached ==
    /\ task.kind = "sendStudentDeadlineNotification"
    /\ outcome = "ok"
    /\ \E u \in Users :
          /\ IsStudentOf(TaskGroup, u)
          /\ <<TaskGroup, u, "teacher">> \in db.members
          /\ Attempts("student", "push", u) = 1
          /\ Attempts("student", "email", u) = 1

\* ------------------------------------------------------------ test replica

\* MockQueryEngine.query on the join of activity, course, run and group: the
\* course-activity, its activity, its course and the run have to be found, the
\* run's group does not
MockActivityRunQuery(caId, runId) ==
    { [activity_id |-> db.cas[ca].activity_id,
       type        |-> db.acts[db.cas[ca].activity_id].type,
       payload     |-> db.acts[db.cas[ca].activity_id].payload,
       run_name    |-> db.runs[runId].name,
       group_id    |-> db.runs[runId].group_id]
      : ca \in { x \in DOMAIN db.cas :
                   /\ x = caId
                   /\ db.cas[x].activity_id \in DOMAIN db.acts
                   /\ db.cas[x].course_id \in DOMAIN db.courses
                   /\ runId \in DOMAIN db.runs } }

\* MockQueryEngine.query on the students of a group
MockStudentsQuery(groupId) ==
    { m \in db.members :
        m[1] = groupId /\ m[3] = "student" /\ m[2] \in DOMAIN db.users }

\* MockQueryEngine.query on assignment_submissions
MockAssignmentSubmissions(activityId, runId) ==
    { s[3] : s \in { x \in db.asub : x[1] = activityId /\ x[2] = runId } }

\* MockQueryEngine.query on "quiz-attempts": ... && a.completed_at
MockQuizAttempts(activityId, runId) ==
    { s[3] : s \in { x \in db.quiz :
                        x[1] = activityId /\ x[2] = runId /\ ~Falsy(x[4]) } }

\* MockQueryEngine.query on exam_submissions: ... && e.submitted_at
MockExamSubmissions(activityId, runId) ==
    { s[3] : s \in { x \in db.exam :
                        x[1] = activityId /\ x[2] = runId /\ ~Falsy(x[4]) } }

\* the users testMissedDeadlineNotification sends to for (courseActivityId,
\* runId), the join having given it a row
testMissedDeadlineNotification(courseActivityId, runId) ==
    LET res == MockActivityRunQuery(courseActivityId, runId)
        row == CHOOSE x \in res : TRUE
        studentsRes == MockStudentsQuery(row.group_id)
        submittedIds ==
            IF row.type = "assignment"
            THEN MockAssignmentSubmissions(row.activity_id, runId)
            ELSE IF row.type = "quiz"
            THEN MockQuizAttempts(row.activity_id, runId)
            ELSE IF row.type = "exam"
            THEN MockExamSubmissions(row.activity_id, runId)
            ELSE {}
    IN  { RowUser(student) : student \in
            { s \in studentsRes : RowUser(s) \notin submittedIds } }

\* the users a returned notifyMissedDeadline has called
Notified == { u \in UserIds : Attempts("student", "push", u) > 0 }

\* C21 as stated (test logic replicates production): when notifyMissedDeadline
\* returns, the users it has called are the users testMissedDeadlineNotification
\* sends to over the same store and payload, whatever the activity's type.
C21_AsStated ==
    (task.kind = "notifyMissedDeadline" /\ outcome = "ok") =>
        Notified = testMissedDeadlineNotification(task.p.courseActivityId,
                                                  task.p.runId)

\* the two agree for every activity that is not a quiz, and for a quiz none of
\* whose attempts for the run is incomplete
C21_ButIncompleteQuiz ==
    ( /\ task.kind = "notifyMissedDeadline"
      /\ outcome = "ok"
      /\ \/ TaskActivityType # "quiz"
         \/ \A x \in db.quiz :
               (x[1] = TaskActivity /\ x[2] = task.p.runId) => x[4] # NULL )
    => Notified = testMissedDeadlineNotification(task.p.courseActivityId,
                                                 task.p.runId)

\* the users with a row for (activity, run) in the table named by the type: an
\* assignment submission, a quiz attempt, an exam submission with a submitted_at
OwnSource(activityType, activityId, runId) ==
    { u \in Users :
        \/ activityType = "assignment" /\ <<activityId, runId, u>> \in db.asub
        \/ activityType = "quiz"
              /\ \E c \in {NULL, "T"} : <<activityId, runId, u, c>> \in db.quiz
        \/ activityType = "exam" /\ <<activityId, runId, u, "T">> \in db.exam }

\* the users with a row for (activity, run) in a table of another type, or an
\* exam submission without a submitted_at
OtherSources(activityType, activityId, runId) ==
    { u \in Users :
        \/ activityType # "assignment" /\ <<activityId, runId, u>> \in db.asub
        \/ activityType # "quiz"
              /\ \E c \in {NULL, "T"} : <<activityId, runId, u, c>> \in db.quiz
        \/ activityType # "exam" /\ <<activityId, runId, u, "T">> \in db.exam
        \/ <<activityId, runId, u, NULL>> \in db.exam }

TaskOwnSource == OwnSource(TaskActivityType, TaskActivity, task.p.runId)

\* C22 (exactly one submission source): notifyMissedDeadline calls the students
\* of the run's group without a row in the table of the activity's type, and
\* the summary counts the students with such a row as submitted; rows in the
\* tables of the other types and exam rows without a submitted_at change
\* neither.
C22_OneSource ==
    /\ (task.kind = "notifyMissedDeadline" /\ outcome = "ok") =>
          Notified = StudentsOfTaskGroup \ TaskOwnSource
    /\ SummaryBuilt =>
          /\ task.info.submitted
                = Cardinality(StudentsOfTaskGroup \cap TaskOwnSource)
          /\ task.info.notSubmitted
                = Cardinality(StudentsOfTaskGroup \ TaskOwnSource)

\* a returned notifyMissedDeadline that called a student with rows for the
\* activity and the run in the tables of two other types
C22_Witness ==
    /\ task.kind = "notifyMissedDeadline"
    /\ outcome = "ok"
    /\ \E u \in StudentsOfTaskGroup :
          /\ <<TaskActivity, task.p.runId, u>> \in db.asub
          /\ <<TaskActivity, task.p.runId, u, "T">> \in db.exam
          /\ TaskActivityType = "quiz"
          /\ u \notin TaskOwnSource
          /\ Attempts("student", "push", u) = 1
          /\ Attempts("student", "email", u) = 1

\* a returned notifyMissedDeadline for an exam that called a student whose exam
\* row has no submitted_at and left out one whose row has
C22_ExamReached ==
    /\ task.kind = "notifyMissedDeadline"
    /\ outcome = "ok"
    /\ TaskActivityType = "exam"
    /\ \E u \in StudentsOfTaskGroup, v \in StudentsOfTaskGroup :
          /\ <<TaskActivity, task.p.runId, u, NULL>> \in db.exam
          /\ <<TaskActivity, task.p.runId, v, "T">> \in db.exam
          /\ Attempts("student", "push", u) = 1
          /\ Attempts("student", "push", v) = 0

\* a summary built for a group with a student whose only rows are in the
\* tables of other types: counted as not submitted
C22_SummaryReached ==
    /\ SummaryBuilt
    /\ outcome = "ok"
    /\ (StudentsOfTaskGroup \cap OtherSources(TaskActivityType, TaskActivity,
                                              task.p.runId)) \ TaskOwnSource # {}
    /\ task.info.notSubmitted = Cardinality(StudentsOfTaskGroup)

SubmissionFilteredTasks ==
    {"notifyMissedDeadline", "notifyFacilitatorPostDeadlineSummary"}

\* the invocation is past its resolution: it has issued the membership query
MembershipQueried == Invoked /\ "group-members" \in task.queried

\* C23 (empty base set issues no submission query): notifyMissedDeadline and
\* the summary, finding no student in the run's group, return having queried
\* the membership table only - no submission or attempt table, no manager
\* table - and without a push or email call.
C23_EmptyGroupShortCircuit ==
    ( /\ task.kind \in SubmissionFilteredTasks
      /\ MembershipQueried
      /\ StudentsOfTaskGroup = {} )
    => /\ outcome = "ok"
       /\ task.queried = {"group-members"}
       /\ NoAttemptAtAll

\* a returned summary for a run whose group has no student, the activity being
\* graded and the course having a manager: the membership table was queried,
\* nothing else, and the manager was not called
C23_Witness ==
    /\ task.kind = "notifyFacilitatorPostDeadlineSummary"
    /\ MembershipQueried
    /\ outcome = "ok"
    /\ StudentsOfTaskGroup = {}
    /\ ~NotGraded(TaskActivityType)
    /\ \E u \in Users : IsManagerOf(TaskCourse, u)
    /\ task.queried = {"group-members"}
    /\ NoAttemptAtAll

\* the same for notifyMissedDeadline
C23_MissedDeadlineReached ==
    /\ task.kind = "notifyMissedDeadline"
    /\ MembershipQueried
    /\ outcome = "ok"
    /\ StudentsOfTaskGroup = {}
    /\ ~NotGraded(TaskActivityType)
    /\ task.queried = {"group-members"}

\* a summary for a group with students has queried the submission table of the
\* activity's type and the manager table
C23_FullQueriesReached ==
    /\ SummaryBuilt
    /\ task.queried = {"group-members", "course_managers", "quiz-attempts"}

\* the notification tasks whose payload names a course-activity
ActivityBearingTasks ==
    { "sendStudentDeadlineNotification", "sendManagerDeadlineWarning",
      "notifyScorePublished", "notifyActivityPosted", "notifyRedoEnabled",
      "notifyMissedDeadline", "notifyFacilitatorPostDeadlineSummary" }

\* those of them that read course-activity, run and group in one join
OneJoinTasks ==
    { "notifyScorePublished", "notifyActivityPosted", "notifyMissedDeadline",
      "notifyFacilitatorPostDeadlineSummary" }

MissingActivityErrors == {"ActivityNotFound", "ActivityDataNotFound"}

RunGroupErrors ==
    {"GroupNotFound", "RunNameNotFound", "GroupOrCourseNotFound", "CourseRunNotFound"}

\* the course-activity of the invocation joined with its activity and course
TaskActivityRows == ActivityQuery(task.p.courseActivityId)

\* the stored payload of the invocation's activity, as JSON.parse is given it
TaskPayloadParsed ==
    LET payload == (CHOOSE row \in TaskActivityRows : TRUE).payload
    IN  JSONparse(IF Falsy(payload) THEN "{}" ELSE payload)

\* the parsed payload has no title: it is not an object, or an object without a
\* title or with an empty one
TaskPayloadHasNoTitle ==
    ~TaskPayloadParsed.threw /\ Falsy(TaskPayloadParsed.title)

\* C24 as stated (resolution error classification): an activity-bearing task
\* raises a missing-activity error exactly when the course-activity join yields
\* no row, a malformed-payload error exactly when the stored payload does not
\* parse, a missing-title error exactly when the parsed payload has no title,
\* and for a missing run a run or group error, not a missing-activity error.
C24_AsStated ==
    (task.kind \in ActivityBearingTasks /\ Invoked) =>
        /\ (err \in MissingActivityErrors) <=> (TaskActivityRows = {})
        /\ TaskActivityRows # {} =>
              /\ (err = "ParseFailed") <=> TaskPayloadParsed.threw
              /\ (err = "TitleNotFound") <=> TaskPayloadHasNoTitle
              /\ (RunMissing /\ ~TaskPayloadParsed.threw /\ ~TaskPayloadHasNoTitle
                    /\ task.kind # "notifyRedoEnabled")
                    => err \in RunGroupErrors

\* what holds of the code: the tasks with two queries classify as stated but
\* for a payload that parses to null, which ends in a TypeError; the tasks with
\* one join raise their missing-activity error also for a missing run or group
C24_Classification ==
    (task.kind \in ActivityBearingTasks \ {"notifyRedoEnabled"} /\ Invoked) =>
        /\ (err \in MissingActivityErrors) <=>
              \/ TaskActivityRows = {}
              \/ /\ task.kind \in OneJoinTasks
                 /\ ActivityRunQuery(task.p.courseActivityId, task.p.runId) = {}
        /\ (TaskActivityRows # {} /\ err \notin MissingActivityErrors) =>
              /\ (err = "ParseFailed") <=> TaskPayloadParsed.threw
              /\ (err = "TypeError") <=>
                    (~TaskPayloadParsed.threw /\ ~TaskPayloadParsed.isObject)
              /\ (err = "TitleNotFound") <=>
                    (TaskPayloadParsed.isObject /\ Falsy(TaskPayloadParsed.title))
              /\ (RunMissing /\ ~TaskPayloadParsed.threw /\ ~TaskPayloadHasNoTitle)
                    => err \in RunGroupErrors

\* a deadline reminder whose activity has the payload text null: it raised a
\* TypeError, not the missing-title error
C24_NullPayloadReached ==
    /\ task.kind = "sendStudentDeadlineNotification"
    /\ outcome = "raised"
    /\ TaskActivityRows # {}
    /\ (CHOOSE row \in TaskActivityRows : TRUE).payload = "null"
    /\ err = "TypeError"

\* a score notification for a run id without a row, the course-activity
\* resolving: it raised its missing-activity error
C24_MissingRunReached ==
    /\ task.kind = "notifyScorePublished"
    /\ outcome = "raised"
    /\ TaskActivityRows # {}
    /\ ~TaskPayloadParsed.threw /\ ~TaskPayloadHasNoTitle
    /\ RunMissing
    /\ err = "ActivityDataNotFound"

\* C25 (per-recipient channel order): in a fan-out, a recipient whose push call
\* has not settled has had no email call; once it has settled, by returning or
\* by being caught, the recipient has had one push call and one email call; and
\* when the task returns every recipient's two calls have settled, in whatever
\* order the calls of different recipients settled.
C25_ChannelOrder ==
    /\ outcome = "running" =>
          \A row \in DOMAIN jobs :
              /\ Attempts(half, "push", RowUser(row)) = 1
              /\ jobs[row] = "push"
                    => /\ Attempts(half, "email", RowUser(row)) = 0
                       /\ <<half, "push", row>> \notin failed
                       /\ MailFor(row) = {}
              /\ jobs[row] \in {"email", "done"}
                    => Attempts(half, "email", RowUser(row)) = 1
              /\ jobs[row] = "email" => <<half, "email", row>> \notin failed
    /\ (outcome = "ok" /\ task.kind \in DispatchingTasks) =>
          \A row \in DOMAIN jobs :
              /\ jobs[row] = "done"
              /\ Attempts(half, "push", RowUser(row)) = 1
              /\ Attempts(half, "email", RowUser(row)) = 1

\* a fan-out in which one recipient is through both calls, the push call having
\* been caught, while another recipient's push call has not settled yet
C25_Witness ==
    /\ outcome = "running"
    /\ \E a \in DOMAIN jobs, b \in DOMAIN jobs :
          /\ RowUser(a) # RowUser(b)
          /\ jobs[a] = "done"
          /\ <<half, "push", a>> \in failed
          /\ Attempts(half, "email", RowUser(a)) = 1
          /\ jobs[b] = "push"
          /\ Attempts(half, "email", RowUser(b)) = 0

\* the two recipients of one fan-out in either order
C25_FirstAheadReached ==
    /\ task.kind = "notifyActivityPosted"
    /\ outcome = "running"
    /\ \E a \in DOMAIN jobs, b \in DOMAIN jobs :
          /\ RowUser(a) = "u1" /\ RowUser(b) = "u2"
          /\ jobs[a] = "done" /\ jobs[b] = "push"

C25_SecondAheadReached ==
    /\ task.kind = "notifyActivityPosted"
    /\ outcome = "running"
    /\ \E a \in DOMAIN jobs, b \in DOMAIN jobs :
          /\ RowUser(a) = "u1" /\ RowUser(b) = "u2"
          /\ jobs[a] = "push" /\ jobs[b] = "email"

\* C26 (summary depends on a non-empty group): the summary, its context
\* resolved, calls nobody when the run's group has no student, whatever
\* managers the course has; when the group has a student it calls every manager
\* of the course once on each channel and nobody else, also when every student
\* has submitted.
C26_SummaryNeedsStudents ==
    (task.kind = "notifyFacilitatorPostDeadlineSummary" /\ MembershipQueried) =>
        /\ StudentsOfTaskGroup = {} => (outcome = "ok" /\ NoAttemptAtAll)
        /\ (StudentsOfTaskGroup # {} /\ outcome = "ok") =>
              \A u \in Users, ch \in Channels :
                  Attempts("manager", ch, u)
                      = IF IsManagerOf(TaskCourse, u) THEN 1 ELSE 0

\* a returned summary for a group all of whose students have submitted: the
\* count of the not submitted is zero and a manager of the course was called
\* on both channels
C26_Witness ==
    /\ SummaryBuilt
    /\ outcome = "ok"
    /\ StudentsOfTaskGroup # {}
    /\ StudentsOfTaskGroup \subseteq SubmittedNow
    /\ task.info.notSubmitted = 0
    /\ \E u \in Users :
          /\ IsManagerOf(TaskCourse, u)
          /\ Attempts("manager", "push", u) = 1
          /\ Attempts("manager", "email", u) = 1

\* a returned summary for a course with a manager and a group without a
\* student: the manager was not called
C26_EmptyGroupReached ==
    /\ task.kind = "notifyFacilitatorPostDeadlineSummary"
    /\ outcome = "ok"
    /\ MembershipQueried
    /\ StudentsOfTaskGroup = {}
    /\ { u \in Users : IsManagerOf(TaskCourse, u) } # {}
    /\ NoAttemptIn("manager")

\* the tasks that are given a course-activity and a run
RunAndActivityTasks ==
    { "sendStudentDeadlineNotification", "sendManagerDeadlineWarning",
      "notifyScorePublished", "notifyActivityPosted", "notifyMissedDeadline",
      "notifyFacilitatorPostDeadlineSummary" }

\* the run of the invocation belongs to another course than its course-activity
CrossCourse ==
    db.runs[task.p.runId].course_id # db.cas[task.p.courseActivityId].course_id

\* the store differs from the store of the run before in nothing but the
\* course_id of the invocation's run
OnlyRunCourseChanged ==
    /\ \A f \in DOMAIN db \ {"runs"} : db[f] = StoreBefore[f]
    /\ DOMAIN db.runs = DOMAIN StoreBefore.runs
    /\ \A r \in DOMAIN db.runs :
          IF r = task.p.runId
          THEN /\ db.runs[r].course_id # StoreBefore.runs[r].course_id
               /\ [db.runs[r] EXCEPT !.course_id = StoreBefore.runs[r].course_id]
                     = StoreBefore.runs[r]
          ELSE db.runs[r] = StoreBefore.runs[r]

\* C27 (run and course-activity are not cross-checked): a task given a
\* course-activity and a run, both resolving, does not raise, whichever course
\* the run belongs to; when it returns its student calls are fixed by the
\* members of the run's group and its manager calls by the managers of the
\* course-activity's course; and a second notifyMissedDeadline run over a store
\* that differs from the first run's in the course_id of the run only calls
\* the users the first run called.
C27_NoCrossCheck ==
    /\ (task.kind \in RunAndActivityTasks /\ Invoked /\ ContextResolves) =>
          /\ outcome # "raised"
          /\ (outcome = "ok" /\ task.kind \in {"sendStudentDeadlineNotification",
                  "notifyScorePublished", "notifyActivityPosted"}) =>
                \A u \in Users, ch \in Channels :
                    Attempts("student", ch, u)
                        = IF IsStudentOf(TaskGroup, u) THEN 1 ELSE 0
          /\ (outcome = "ok" /\ task.kind = "notifyMissedDeadline") =>
                Notified = StudentsOfTaskGroup \ SubmittedNow
          /\ (outcome = "ok" /\ task.kind = "sendManagerDeadlineWarning") =>
                \A u \in Users, ch \in Channels :
                    Attempts("manager", ch, u)
                        = IF IsManagerOf(db.cas[task.p.courseActivityId].course_id, u)
                          THEN 1 ELSE 0
          /\ (outcome = "ok" /\ SummaryBuilt) =>
                \A u \in Users, ch \in Channels :
                    Attempts("manager", ch, u)
                        = IF IsManagerOf(db.cas[task.p.courseActivityId].course_id, u)
                          THEN 1 ELSE 0
    /\ (IsRerun /\ Invoked /\ OnlyRunCourseChanged) =>
          /\ outcome # "raised"
          /\ outcome = "ok" => Notified = task.previous.notified

\* a second notifyMissedDeadline run for a run that has been moved to another
\* course than the course-activity's since the first: it called the same
\* students
C27_Witness ==
    /\ IsRerun
    /\ outcome = "ok"
    /\ OnlyRunCourseChanged
    /\ CrossCourse
    /\ Notified # {}
    /\ Notified = task.previous.notified

\* a returned manager warning for a run of another course: the managers of the
\* course-activity's course were called, a manager of the run's course only
\* was not
C27_ManagersReached ==
    /\ task.kind = "sendManagerDeadlineWarning"
    /\ outcome = "ok"
    /\ CrossCourse
    /\ \E u \in Users, v \in Users :
          /\ IsManagerOf(db.cas[task.p.courseActivityId].course_id, u)
          /\ Attempts("manager", "push", u) = 1
          /\ IsManagerOf(db.runs[task.p.runId].course_id, v)
          /\ ~IsManagerOf(db.cas[task.p.courseActivityId].course_id, v)
          /\ Attempts("manager", "push", v) = 0

\* a returned score notification for a run of another course
C27_StudentsReached ==
    /\ task.kind = "notifyScorePublished"
    /\ outcome = "ok"
    /\ CrossCourse
    /\ \E u \in Users : Attempts("student", "push", u) = 1

\* the run before was notifyMissedDeadline with the summary's payload, over the
\* store the summary reads
SummaryAfterMissedDeadline ==
    /\ SummaryBuilt
    /\ task.previous.kind = "notifyMissedDeadline"
    /\ StoreBefore = db

\* C28 (summary and missed-deadline agree): the counts of the summary are not
\* negative and add up to the number of students of the run's group, and the
\* notSubmitted count is the number of users notifyMissedDeadline called when
\* run with the same payload over the same store.
C28_CountsAgree ==
    /\ SummaryBuilt =>
          /\ task.info.submitted >= 0
          /\ task.info.notSubmitted >= 0
          /\ task.info.submitted + task.info.notSubmitted
                = Cardinality(StudentsOfTaskGroup)
    /\ SummaryAfterMissedDeadline =>
          task.info.notSubmitted = Cardinality(task.previous.notified)

\* a summary after a notifyMissedDeadline run over the same store that called
\* one of two students, a user outside the group having a record too: one
\* submitted, one not
C28_Witness ==
    /\ SummaryAfterMissedDeadline
    /\ outcome = "ok"
    /\ Cardinality(StudentsOfTaskGroup) = 2
    /\ Cardinality(task.previous.notified) = 1
    /\ SubmittedNow \ StudentsOfTaskGroup # {}
    /\ task.info.submitted = 1
    /\ task.info.notSubmitted = 1

\* a summary after a notifyMissedDeadline run that called nobody
C28_NobodyReached ==
    /\ SummaryAfterMissedDeadline
    /\ task.previous.notified = {}
    /\ task.info.notSubmitted = 0
    /\ task.info.submitted >= 1

\* the subscriptions of the recipient row's push call whose send has been
\* started and has settled or is still in flight
SendsOf(h, row) ==
    { s.sub : s \in { x \in sends : x.half = h /\ x.row = row } }
        \cup { s[3] : s \in { x \in pending : x[1] = h /\ x[2] = row } }

RejectedSendsOf(h, row) ==
    { s.sub : s \in { x \in sends :
                        x.half = h /\ x.row = row /\ x.result = "rejected" } }

\* the active subscriptions of a user that parse to an object with an endpoint
WellFormedActive(u) == { sub \in {"s1", "s2", "s3"} : <<u, sub, 1, "object">> \in db.subs }

PushCallFailed(row) == <<half, "push", row>> \in failed

\* C29 (push over subscriptions): a send is only ever made to an active,
\* well-formed subscription of the recipient; a push call that has settled has
\* started a send to every such subscription of the user, whether or not one of
\* them failed, and has failed exactly when one of its sends was rejected; for
\* a user whose active subscriptions are all malformed, or who has none, it has
\* returned without a send.
C29_PushOverSubscriptions ==
    /\ \A s \in sends : s.sub \in WellFormedActive(RowUser(s.row))
    /\ \A s \in pending : s[3] \in WellFormedActive(RowUser(s[2]))
    /\ \A row \in DOMAIN jobs :
          IF jobs[row] = "push"
          THEN SendsOf(half, row) = {}
          ELSE /\ SendsOf(half, row) = WellFormedActive(RowUser(row))
               /\ PushCallFailed(row) <=> RejectedSendsOf(half, row) # {}
               /\ WellFormedActive(RowUser(row)) = {} => ~PushCallFailed(row)

\* a push call that failed on one subscription of a user who has two active
\* ones and an inactive one: the send to the other active one was started, none
\* to the inactive one
C29_Witness ==
    /\ outcome \in {"running", "ok"}
    /\ \E row \in DOMAIN jobs :
          /\ jobs[row] # "push"
          /\ PushCallFailed(row)
          /\ Cardinality(RejectedSendsOf(half, row)) = 1
          /\ Cardinality(SendsOf(half, row)) = 2
          /\ \E x \in db.subs : x[1] = RowUser(row) /\ x[3] = 0
                                   /\ x[2] \notin SendsOf(half, row)

\* a push call for a user without an active subscription: returned, no send
C29_NoActiveReached ==
    \E row \in DOMAIN jobs :
        /\ jobs[row] # "push"
        /\ SubscriptionsQuery(RowUser(row)) = {}
        /\ \E x \in db.subs : x[1] = RowUser(row)
        /\ ~PushCallFailed(row)
        /\ SendsOf(half, row) = {}

\* a push call for a user with three active subscriptions, one that does not
\* parse and one without endpoint: it returned with the one send to the third
C29_MalformedReached ==
    \E row \in DOMAIN jobs :
        /\ jobs[row] # "push"
        /\ Cardinality(SubscriptionsQuery(RowUser(row))) = 3
        /\ Cardinality(WellFormedActive(RowUser(row))) = 1
        /\ ~PushCallFailed(row)
        /\ SendsOf(half, row) = WellFormedActive(RowUser(row))

\* a push call both of whose sends were rejected, the second after the call
\* had thrown
C29_BothRejectedReached ==
    \E row \in DOMAIN jobs :
        /\ PushCallFailed(row)
        /\ Cardinality(RejectedSendsOf(half, row)) = 2

NewDocumentDispatched ==
    task.kind = "notifyNewDocumentAdded" /\ outcome \in {"running", "ok"}

ManagersOfTaskCourse == { u \in Users : IsManagerOf(TaskCourse, u) }

\* what holds in every state of a notifyNewDocumentAdded invocation past its
\* resolution
NewDocumentHalves ==
    NewDocumentDispatched =>
        /\ half = "student" => NoAttemptIn("manager")
        /\ half = "manager" =>
              \A u \in Users, ch \in Channels :
                  Attempts("student", ch, u)
                      = IF IsStudentOf(TaskGroup, u) THEN 1 ELSE 0
        /\ outcome = "ok" =>
              /\ \A u \in Users, ch \in Channels :
                    /\ Attempts("student", ch, u)
                          = IF IsStudentOf(TaskGroup, u) THEN 1 ELSE 0
                    /\ Attempts("manager", ch, u)
                          = IF IsManagerOf(TaskCourse, u) THEN 1 ELSE 0
                    /\ (IsStudentOf(TaskGroup, u) /\ IsManagerOf(TaskCourse, u))
                          => Attempts("student", ch, u)
                                + Attempts("manager", ch, u) = 2
              /\ (StudentsOfTaskGroup # {} \/ ManagersOfTaskCourse # {})
                    => ~NoAttemptAtAll

\* a step of notifyNewDocumentAdded that calls a manager is either the step
\* that ends the student half, taken when every student job has settled and
\* calling all the managers, or a step of the manager half
ManagersAfterStudents ==
    ( /\ task.kind = "notifyNewDocumentAdded"
      /\ outcome = "running"
      /\ \E u \in Users, ch \in Channels :
            att'[<<"manager", ch, u>>] > att[<<"manager", ch, u>>] )
    => \/ /\ half = "student"
          /\ \A row \in DOMAIN jobs : jobs[row] = "done"
          /\ \A u \in Users :
                att'[<<"manager", "push", u>>]
                    = IF IsManagerOf(TaskCourse, u) THEN 1 ELSE 0
       \/ half = "manager"

\* C30 (new-document delivery per half): notifyNewDocumentAdded, its run
\* resolved, makes a call unless the run's group has no student and the run's
\* course no manager; it calls every student once on each channel, then every
\* manager once on each channel, no manager being called before the push and
\* email calls of every student have settled; a user who is a student of the
\* group and a manager of the course has two push calls and two email calls.
C30_PerHalf == []NewDocumentHalves /\ [][ManagersAfterStudents]_vars

\* a returned notifyNewDocumentAdded for a run in whose group a user is a
\* student and of whose course the same user is a manager: that user had two
\* push calls and two email calls, another student one of each
C30_Witness ==
    /\ task.kind = "notifyNewDocumentAdded"
    /\ outcome = "ok"
    /\ \E u \in Users, v \in Users :
          /\ IsStudentOf(TaskGroup, u) /\ IsManagerOf(TaskCourse, u)
          /\ Attempts("student", "push", u) + Attempts("manager", "push", u) = 2
          /\ Attempts("student", "email", u) + Attempts("manager", "email", u) = 2
          /\ v # u
          /\ IsStudentOf(TaskGroup, v) /\ ~IsManagerOf(TaskCourse, v)
          /\ Attempts("student", "push", v) + Attempts("manager", "push", v) = 1

\* a returned notifyNewDocumentAdded for a run whose group has no student and
\* whose course has managers: the managers were called
C30_ManagersOnlyReached ==
    /\ task.kind = "notifyNewDocumentAdded"
    /\ outcome = "ok"
    /\ StudentsOfTaskGroup = {}
    /\ ManagersOfTaskCourse # {}
    /\ \A u \in ManagersOfTaskCourse : Attempts("manager", "push", u) = 1

\* the same with students and no manager
C30_StudentsOnlyReached ==
    /\ task.kind = "notifyNewDocumentAdded"
    /\ outcome = "ok"
    /\ StudentsOfTaskGroup # {}
    /\ ManagersOfTaskCourse = {}
    /\ \A u \in StudentsOfTaskGroup : Attempts("student", "push", u) = 1

\* the student half in progress, a student's email call not yet settled: no
\* manager has been called
C30_StudentsFirstReached ==
    /\ task.kind = "notifyNewDocumentAdded"
    /\ outcome = "running"
    /\ half = "student"
    /\ \E row \in DOMAIN jobs : jobs[row] = "email"
    /\ ManagersOfTaskCourse # {}
    /\ NoAttemptIn("manager")

====
